---- MODULE Spec2Model ----
(***************************************************************************)
(* Model of the PyQt6 editor core (src/pyqt6_editor/core.py) and of the    *)
(* key handling of its editor widget (src/pyqt6_editor/gui.py).            *)
(*                                                                         *)
(* Text is modelled character by character: a document is a TLA+ string,   *)
(* offsets are 0-based as in the Python source, and the marker scan, the   *)
(* attribute scan, str.find and str.strip are computed on the characters.  *)
(* An optional value (None or a value) is a sequence of length 0 or 1.     *)
(***************************************************************************)
EXTENDS Integers, Sequences, FiniteSets, TLC

VARIABLES
    content,      \* DocumentManager._content
    file_path,    \* DocumentManager._file_path   (<<>> is None)
    modified,     \* DocumentManager._modified
    segments,     \* DocumentManager._segments
    files,        \* the file system: path -> <<text>> of the file, <<>> when absent
    text,         \* the editor widget's plain text
    cursor,       \* the editor widget's cursor position (no selection)
    in_window,    \* the widget is MainWindow.styled_editor (core set, signals connected)
    edits,        \* number of key events that edited the widget's text so far
    pending,      \* the value a caller is about to assign to content (<<>>: none)
    current_mode,         \* EditorCore._current_mode: "styled" or "source"
    grid_visible,         \* EditorCore._grid_visible
    view_mode_callbacks,  \* EditorCore._view_mode_callbacks, in registration order
    grid_callbacks,       \* EditorCore._grid_callbacks, in registration order
    calls,                \* the observer invocations of the last operation, in order
    source_text,          \* MainWindow.source_editor's plain text
    dynamic_functions,    \* DocumentManager._dynamic_functions: the registered names
    op,           \* name of the operation that produced this state
    arg,          \* its argument (segment id, path, key or position)
    ret           \* its result

vars == <<content, file_path, modified, segments, files, text, cursor,
          in_window, edits, pending, current_mode, grid_visible,
          view_mode_callbacks, grid_callbacks, calls, source_text,
          dynamic_functions, op, arg, ret>>

coreVars == <<current_mode, grid_visible, view_mode_callbacks, grid_callbacks,
              calls, source_text>>

docVars == <<content, file_path, modified, segments>>

----------------------------------------------------------------------------
(* Bounds of the model *)

MaxPieces == 3
MaxLineLen == 82
MaxEdits == 1
MaxObservers == 2
MaxReenter == 2

----------------------------------------------------------------------------
(* Characters and strings *)

None == <<>>
Some(v) == <<v>>

Min(S) == CHOOSE m \in S : \A n \in S : m <= n

\* s[i], 0-based
CharAt(s, i) == SubSeq(s, i + 1, i + 1)

\* s[a:b], 0-based and half-open; a <= b <= len(s)
Slice(s, a, b) == SubSeq(s, a + 1, b)

CharsOf(s) == { SubSeq(s, i, i) : i \in 1..Len(s) }

\* the characters Python's \s and str.strip() treat as whitespace
Whitespace == {" ", "\n", "\t", "\r"}

LowerLetters == "abcdefghijklmnopqrstuvwxyz"
UpperLetters == "ABCDEFGHIJKLMNOPQRSTUVWXYZ"

\* the characters the regex class \w matches
WordChars == CharsOf(LowerLetters) \cup CharsOf(UpperLetters)
                 \cup CharsOf("0123456789_")

\* str.strip() == "": only whitespace
IsBlank(s) == \A i \in 1..Len(s) : SubSeq(s, i, i) \in Whitespace

\* str.strip()
Strip(s) ==
    IF IsBlank(s) THEN ""
    ELSE LET keep == { i \in 1..Len(s) : SubSeq(s, i, i) \notin Whitespace }
             lo == Min(keep)
             hi == CHOOSE m \in keep : \A n \in keep : n <= m
         IN  SubSeq(s, lo, hi)

\* s[i:].startswith(lit), 0-based
StartsWithAt(s, lit, i) ==
    /\ i + Len(lit) <= Len(s)
    /\ Slice(s, i, i + Len(lit)) = lit

\* str.find(lit, start): least 0-based index >= start, or -1
Find(s, lit, start) ==
    LET hits == { k \in start..(Len(s) - Len(lit)) : StartsWithAt(s, lit, k) }
    IN  IF hits = {} THEN -1 ELSE Min(hits)

\* lit in s
Contains(s, lit) == Find(s, lit, 0) # -1

\* least index >= i whose character is not whitespace (len(s) if none)
SkipSpace(s, i) ==
    LET stops == { k \in i..(Len(s) - 1) : CharAt(s, k) \notin Whitespace }
    IN  IF stops = {} THEN Len(s) ELSE Min(stops)

\* str.lower() of one character
LowerChar(c) ==
    IF c \in CharsOf(UpperLetters)
    THEN LET k == CHOOSE i \in 1..26 : SubSeq(UpperLetters, i, i) = c
         IN  SubSeq(LowerLetters, k, k)
    ELSE c

RECURSIVE Lower(_)
\* str.lower()
Lower(s) == IF s = "" THEN "" ELSE LowerChar(SubSeq(s, 1, 1)) \o Lower(SubSeq(s, 2, Len(s)))

----------------------------------------------------------------------------
(* Segment model *)

DynamicFunction(function, deps) == [function |-> function, deps |-> deps]

SegmentMetadata(id, locked, double_width, dynamic) ==
    [id |-> id, locked |-> locked, double_width |-> double_width, dynamic |-> dynamic]

is_dynamic(metadata) == metadata.dynamic # None

\* is_locked that forgets the dynamic descriptor
is_locked_OnlyFlag(metadata) == metadata.locked

is_locked(metadata) == metadata.locked \/ is_dynamic(metadata)

\* the dataclass constructor with __post_init__
TextSegment(c, metadata, start_pos, end_pos) ==
    [content |-> c, metadata |-> metadata, start_pos |-> start_pos,
     end_pos |-> IF end_pos = 0 THEN start_pos + Len(c) ELSE end_pos]

----------------------------------------------------------------------------
(* Segment parser *)

Quotes == {"\"", "'"}

\* One attempt of segment_pattern  <!--\s*SEGMENT:\s*([^>]+)\s*-->  at offset i.
\* The class [^>] cannot cross a '>', so the closing --> ends at the first
\* '>' after "SEGMENT:"; the group needs one character at least, and the
\* greedy leading \s* gives one back when the group would be empty.
MatchMarkerAt(s, i) ==
    IF ~StartsWithAt(s, "<!--", i) THEN None
    ELSE LET k == SkipSpace(s, i + 4) IN
         IF ~StartsWithAt(s, "SEGMENT:", k) THEN None
         ELSE LET j == k + 8
                  g == Find(s, ">", j)
              IN  IF g = -1 \/ g - 2 < j + 1 \/ Slice(s, g - 2, g) # "--" THEN None
                  ELSE LET w  == SkipSpace(s, j)
                           gs == IF w < g - 2 THEN w ELSE g - 3
                       IN  Some([start |-> i, end |-> g + 1,
                                 def |-> Slice(s, gs, g - 2)])

RECURSIVE FindMarkers(_, _)
\* the scan goes on after the attempt m at offset k
MarkersAfter(s, k, m) ==
    IF m = None THEN FindMarkers(s, k + 1)
    ELSE <<m[1]>> \o FindMarkers(s, m[1].end)

\* the matches from the next "<!--", found at offset k (-1: none)
MarkersAt(s, k) ==
    IF k = -1 THEN <<>> ELSE MarkersAfter(s, k, MatchMarkerAt(s, k))

\* re.finditer(segment_pattern, s) from offset i: leftmost, non-overlapping
FindMarkers(s, i) == MarkersAt(s, Find(s, "<!--", i))

\* One attempt of attr_pattern  (\w+)=["'](.*?)["']  at offset k of d
MatchAttrAt(d, k) ==
    IF k >= Len(d) \/ CharAt(d, k) \notin WordChars THEN None
    ELSE LET ends == { e \in (k + 1)..(Len(d) - 1) : CharAt(d, e) \notin WordChars }
             r == IF ends = {} THEN Len(d) ELSE Min(ends)
         IN  IF r + 1 >= Len(d) \/ CharAt(d, r) # "=" \/ CharAt(d, r + 1) \notin Quotes
             THEN None
             ELSE LET qs == { q \in (r + 2)..(Len(d) - 1) : CharAt(d, q) \in Quotes } IN
                  IF qs = {} THEN None
                  ELSE LET q == Min(qs) IN
                       IF Contains(Slice(d, r + 2, q), "\n") THEN None
                       ELSE Some([key |-> Slice(d, k, r), value |-> Slice(d, r + 2, q),
                                  end |-> q + 1])

RECURSIVE FindAttrs(_, _)
\* the scan goes on after the attempt m at offset k
AttrsAfter(d, k, m) ==
    IF m = None THEN FindAttrs(d, k + 1)
    ELSE <<m[1]>> \o FindAttrs(d, m[1].end)

\* re.findall(attr_pattern, d) from offset k
FindAttrs(d, k) ==
    IF k >= Len(d) THEN <<>> ELSE AttrsAfter(d, k, MatchAttrAt(d, k))

\* key in dict(pairs)
HasAttr(pairs, key) == \E i \in 1..Len(pairs) : pairs[i].key = key

\* dict(pairs).get(key, default): the last pair with the key wins
GetAttr(pairs, key, default) ==
    IF HasAttr(pairs, key)
    THEN LET last == CHOOSE i \in 1..Len(pairs) :
                        /\ pairs[i].key = key
                        /\ \A n \in 1..Len(pairs) : pairs[n].key = key => n <= i
         IN  pairs[last].value
    ELSE default

RECURSIVE SplitComma(_)
\* str.split(',')
SplitComma(s) ==
    LET c == Find(s, ",", 0) IN
    IF c = -1 THEN <<s>>
    ELSE <<Slice(s, 0, c)>> \o SplitComma(Slice(s, c + 1, Len(s)))

RECURSIVE StripNonEmpty(_)
\* [dep.strip() for dep in parts if dep.strip()]
StripNonEmpty(parts) ==
    IF parts = <<>> THEN <<>>
    ELSE (IF Strip(Head(parts)) # "" THEN <<Strip(Head(parts))>> ELSE <<>>)
             \o StripNonEmpty(Tail(parts))

\* the dynamic attribute: "func" or "func:dep,dep"
ParseDynamic(dynamic_def) ==
    LET c == Find(dynamic_def, ":", 0) IN
    IF c # -1
    THEN DynamicFunction(Slice(dynamic_def, 0, c),
                         StripNonEmpty(SplitComma(Slice(dynamic_def, c + 1, Len(dynamic_def)))))
    ELSE DynamicFunction(dynamic_def, <<>>)

\* the metadata built from the dict attrs: None when there is no id
MetadataFrom(attrs) ==
    IF ~HasAttr(attrs, "id") THEN None
    ELSE Some(SegmentMetadata(
             GetAttr(attrs, "id", ""),
             Lower(GetAttr(attrs, "locked", "false")) = "true",
             Lower(GetAttr(attrs, "double_width", "false")) = "true",
             IF HasAttr(attrs, "dynamic")
             THEN Some(ParseDynamic(GetAttr(attrs, "dynamic", "")))
             ELSE None))

\* DocumentManager._parse_segment_definition
_parse_segment_definition(segment_def) == MetadataFrom(FindAttrs(segment_def, 0))

\* segments_found.append((match.end(), metadata)) when metadata is not None
FoundEntry(comment_end_pos, md) ==
    IF md = None THEN <<>>
    ELSE <<[comment_end_pos |-> comment_end_pos, metadata |-> md[1]] >>

RECURSIVE SegmentsFound(_)
\* the list segments_found of _parse_segments: (match.end(), metadata) of
\* every match whose definition has an id
SegmentsFound(matches) ==
    IF matches = <<>> THEN <<>>
    ELSE FoundEntry(Head(matches).end, _parse_segment_definition(Head(matches).def))
             \o SegmentsFound(Tail(matches))

\* a default segment that trims its content as the marker segments do
_create_default_segment_Trimmed(c) ==
    <<TextSegment(Strip(c), SegmentMetadata("default_segment", FALSE, FALSE, None), 0, Len(c))>>

\* DocumentManager._create_default_segment
_create_default_segment(c) ==
    <<TextSegment(c, SegmentMetadata("default_segment", FALSE, FALSE, None), 0, Len(c))>>

\* the end of segment i of _create_segments_from_metadata
SegmentEnd(c, found, i) ==
    IF i + 1 <= Len(found)
    THEN LET next_comment_start == Find(c, "<!-- SEGMENT:", found[i].comment_end_pos)
         IN  IF next_comment_start # -1 THEN next_comment_start ELSE Len(c)
    ELSE Len(c)

\* the segment appended for an entry of segments_found, if its content is
\* not empty
SegmentFor(entry, segment_content, segment_end) ==
    IF segment_content # ""
    THEN <<TextSegment(segment_content, entry.metadata, entry.comment_end_pos, segment_end)>>
    ELSE <<>>

\* the content of the segment that starts at comment_end_pos
SegmentUpTo(c, entry, segment_end) ==
    SegmentFor(entry, Strip(Slice(c, entry.comment_end_pos, segment_end)), segment_end)

RECURSIVE CreateFrom(_, _, _)
CreateFrom(c, found, i) ==
    IF i > Len(found) THEN <<>>
    ELSE SegmentUpTo(c, found[i], SegmentEnd(c, found, i)) \o CreateFrom(c, found, i + 1)

\* DocumentManager._create_segments_from_metadata
_create_segments_from_metadata(c, found) == CreateFrom(c, found, 1)

\* the end of _parse_segments, with its list segments_found
SegmentsFrom(c, segments_found) ==
    IF segments_found = <<>>
    THEN _create_default_segment(c)
    ELSE _create_segments_from_metadata(c, segments_found)

\* DocumentManager._parse_segments: the segment list of content c
_parse_segments(c) ==
    IF IsBlank(c) THEN <<>> ELSE SegmentsFrom(c, SegmentsFound(FindMarkers(c, 0)))

----------------------------------------------------------------------------
(* Documents the model assigns: concatenations of at most MaxPieces pieces *)

MarkerLocked  == "<!-- SEGMENT: id=\"h\", locked=\"true\" -->"
MarkerPlain   == "<!-- SEGMENT: id=\"b\" -->"
MarkerDynamic == "<!-- SEGMENT: id=\"d\", locked=\"false\", dynamic=\"f:a, b\" -->"
MarkerNoId    == "<!-- SEGMENT: locked=\"true\" -->"
MarkerCompact == "<!--SEGMENT: id=\"c\", locked=\"TRUE\"-->"

Markers == {MarkerLocked, MarkerPlain, MarkerDynamic, MarkerNoId, MarkerCompact}

Pieces == Markers \cup {"x", "\n"}

RECURSIVE DocsOfLen(_)
DocsOfLen(n) ==
    IF n = 0 THEN {""}
    ELSE { d \o p : d \in DocsOfLen(n - 1), p \in Pieces }

Docs == UNION { DocsOfLen(n) : n \in 0..MaxPieces }

----------------------------------------------------------------------------
(* Document store: queries *)

\* the interval closed at end_pos where the code has it half-open
get_segment_at_position_Closed(segs, position) ==
    LET covering == { i \in 1..Len(segs) :
                        segs[i].start_pos <= position /\ position <= segs[i].end_pos }
    IN  IF covering = {} THEN None ELSE Some(segs[Min(covering)])

\* DocumentManager.get_segment_at_position: None or the first covering segment
get_segment_at_position(segs, position) ==
    LET covering == { i \in 1..Len(segs) :
                        segs[i].start_pos <= position /\ position < segs[i].end_pos }
    IN  IF covering = {} THEN None ELSE Some(segs[Min(covering)])

\* DocumentManager.is_position_locked
is_position_locked(segs, position) ==
    LET segment == get_segment_at_position(segs, position)
    IN  IF segment # None THEN is_locked(segment[1].metadata) ELSE FALSE

\* EditorCore.can_edit_at_position
can_edit_at_position(segs, position) == ~is_position_locked(segs, position)

----------------------------------------------------------------------------
(* Document store: operations *)

\* the setter without its test for an unchanged value
SetContent_Always(value) ==
    /\ content' = value
    /\ modified' = TRUE
    /\ segments' = _parse_segments(value)
    /\ op' = "content" /\ arg' = value /\ ret' = "none"
    /\ UNCHANGED dynamic_functions
    /\ UNCHANGED <<file_path, files, text, cursor, in_window, edits>>
    /\ UNCHANGED coreVars

\* DocumentManager.content (setter)
SetContent(value) ==
    /\ IF content # value
       THEN /\ content' = value
            /\ modified' = TRUE
            /\ segments' = _parse_segments(value)
       ELSE UNCHANGED <<content, modified, segments>>
    /\ op' = "content" /\ arg' = value /\ ret' = "none"
    /\ UNCHANGED dynamic_functions
    /\ UNCHANGED <<file_path, files, text, cursor, in_window, edits>>
    /\ UNCHANGED coreVars

\* a caller assigns the text it holds to DocumentManager.content
AssignPending ==
    /\ pending # None
    /\ SetContent(pending[1])
    /\ pending' = None

----------------------------------------------------------------------------
(* Files *)

Paths == {"a.xml", "b.xedit", "ro/c.xml"}

\* the paths a load is tried on: also one that names no file
LoadPaths == Paths \cup {"missing.xml"}

\* paths open(path, "w") fails on
Unwritable == {"ro/c.xml"}

\* a file: its characters, whether they decode as UTF-8, and (for the claims)
\* the content a container save wrote it from
File(data, utf8, origin) == [data |-> data, utf8 |-> utf8, origin |-> origin]

RECURSIVE NormalizeNewlines(_)
\* "\r\n" and "\r" become "\n"
NormalizeNewlines(s) ==
    LET r == Find(s, "\r", 0) IN
    IF r = -1 THEN s
    ELSE Slice(s, 0, r) \o "\n" \o NormalizeNewlines(
             IF StartsWithAt(s, "\n", r + 1)
             THEN Slice(s, r + 2, Len(s)) ELSE Slice(s, r + 1, Len(s)))

\* open(path, encoding="utf-8").read(): text mode with universal newlines
ReadText(data) == NormalizeNewlines(data)

\* a load that assigns through the content setter, which skips an equal value
load_from_file_ViaSetter(path) ==
    /\ op' = "load_from_file" /\ arg' = path
    /\ UNCHANGED dynamic_functions
    /\ IF files[path] = None \/ ~files[path][1].utf8
       THEN /\ ret' = "FileLoadError"
            /\ UNCHANGED docVars
       ELSE /\ ret' = "ok"
            /\ content' = ReadText(files[path][1].data)
            /\ file_path' = Some(path)
            /\ modified' = FALSE
            /\ segments' = IF content' = content THEN segments ELSE _parse_segments(content')
    /\ UNCHANGED <<files, text, cursor, in_window, edits, pending>>
    /\ UNCHANGED coreVars

\* DocumentManager.load_from_file
load_from_file(path) ==
    /\ op' = "load_from_file" /\ arg' = path
    /\ UNCHANGED dynamic_functions
    /\ IF files[path] = None \/ ~files[path][1].utf8
       THEN /\ ret' = "FileLoadError"
            /\ UNCHANGED docVars
       ELSE /\ ret' = "ok"
            /\ content' = ReadText(files[path][1].data)
            /\ file_path' = Some(path)
            /\ modified' = FALSE
            /\ segments' = _parse_segments(content')
    /\ UNCHANGED <<files, text, cursor, in_window, edits, pending>>
    /\ UNCHANGED coreVars

\* file_path or self._file_path
TargetPath(path) == IF path # None /\ path # Some("") THEN path ELSE file_path

\* a save that stores the path before the write is known to succeed
save_to_file_PathFirst(path) ==
    LET target_path == TargetPath(path) IN
    /\ op' = "save_to_file"
    /\ UNCHANGED dynamic_functions
    /\ arg' = IF target_path = None THEN "" ELSE target_path[1]
    /\ IF target_path = None \/ target_path = Some("")
       THEN /\ ret' = "FileSaveError"
            /\ UNCHANGED <<file_path, modified, files>>
       ELSE IF target_path[1] \in Unwritable
            THEN /\ ret' = "FileSaveError"
                 /\ file_path' = target_path
                 /\ UNCHANGED <<modified, files>>
            ELSE /\ ret' = "ok"
                 /\ files' = [files EXCEPT ![target_path[1]] = Some(File(content, TRUE, None))]
                 /\ file_path' = target_path
                 /\ modified' = FALSE
    /\ UNCHANGED <<content, segments, text, cursor, in_window, edits, pending>>
    /\ UNCHANGED coreVars

\* a save that clears the modified flag before the write is known to succeed
save_to_file_ClearsFirst(path) ==
    LET target_path == TargetPath(path) IN
    /\ op' = "save_to_file"
    /\ UNCHANGED dynamic_functions
    /\ arg' = IF target_path = None THEN "" ELSE target_path[1]
    /\ IF target_path = None \/ target_path = Some("") \/ target_path[1] \in Unwritable
       THEN /\ ret' = "FileSaveError"
            /\ modified' = FALSE
            /\ UNCHANGED <<file_path, files>>
       ELSE /\ ret' = "ok"
            /\ files' = [files EXCEPT ![target_path[1]] = Some(File(content, TRUE, None))]
            /\ file_path' = target_path
            /\ modified' = FALSE
    /\ UNCHANGED <<content, segments, text, cursor, in_window, edits, pending>>
    /\ UNCHANGED coreVars

\* DocumentManager.save_to_file; path is None or Some(path)
save_to_file(path) ==
    LET target_path == TargetPath(path) IN
    /\ op' = "save_to_file"
    /\ UNCHANGED dynamic_functions
    /\ arg' = IF target_path = None THEN "" ELSE target_path[1]
    /\ IF target_path = None \/ target_path = Some("") \/ target_path[1] \in Unwritable
       THEN /\ ret' = "FileSaveError"
            /\ UNCHANGED <<file_path, modified, files>>
       ELSE /\ ret' = "ok"
            /\ files' = [files EXCEPT ![target_path[1]] = Some(File(content, TRUE, None))]
            /\ file_path' = target_path
            /\ modified' = FALSE
    /\ UNCHANGED <<content, segments, text, cursor, in_window, edits, pending>>
    /\ UNCHANGED coreVars

\* DocumentManager.mark_saved
mark_saved ==
    /\ op' = "mark_saved" /\ arg' = "" /\ ret' = "none"
    /\ UNCHANGED dynamic_functions
    /\ modified' = FALSE
    /\ UNCHANGED <<content, file_path, segments, files, text, cursor, in_window, edits, pending>>
    /\ UNCHANGED coreVars

\* the segment update_segment_content acts on: the first with the id
FirstWithId(segs, segment_id) ==
    LET hits == { i \in 1..Len(segs) : segs[i].metadata.id = segment_id }
    IN  IF hits = {} THEN 0 ELSE Min(hits)

\* update_segment_content without the lock test
update_segment_content_Unchecked(segment_id, new_content) ==
    LET i == FirstWithId(segments, segment_id) IN
    /\ op' = "update_segment_content" /\ arg' = segment_id
    /\ UNCHANGED dynamic_functions
    /\ IF i = 0
       THEN /\ ret' = "False"
            /\ UNCHANGED <<segments, modified>>
       ELSE /\ ret' = "True"
            /\ segments' = [segments EXCEPT ![i].content = new_content]
            /\ modified' = TRUE
    /\ UNCHANGED <<content, file_path, files, text, cursor, in_window, edits, pending>>
    /\ UNCHANGED coreVars

\* update_segment_content that goes on after its first hit
update_segment_content_All(segment_id, new_content) ==
    LET i == FirstWithId(segments, segment_id) IN
    /\ op' = "update_segment_content" /\ arg' = segment_id
    /\ UNCHANGED dynamic_functions
    /\ IF i = 0 \/ is_locked(segments[i].metadata)
       THEN /\ ret' = "False"
            /\ UNCHANGED <<segments, modified>>
       ELSE /\ ret' = "True"
            /\ segments' = [k \in 1..Len(segments) |->
                               IF segments[k].metadata.id = segment_id
                               THEN [segments[k] EXCEPT !.content = new_content]
                               ELSE segments[k]]
            /\ modified' = TRUE
    /\ UNCHANGED <<content, file_path, files, text, cursor, in_window, edits, pending>>
    /\ UNCHANGED coreVars

\* DocumentManager.update_segment_content
update_segment_content(segment_id, new_content) ==
    LET i == FirstWithId(segments, segment_id) IN
    /\ op' = "update_segment_content" /\ arg' = segment_id
    /\ UNCHANGED dynamic_functions
    /\ IF i = 0 \/ is_locked(segments[i].metadata)
       THEN /\ ret' = "False"
            /\ UNCHANGED <<segments, modified>>
       ELSE /\ ret' = "True"
            /\ segments' = [segments EXCEPT ![i].content = new_content]
            /\ modified' = TRUE
    /\ UNCHANGED <<content, file_path, files, text, cursor, in_window, edits, pending>>
    /\ UNCHANGED coreVars

\* new_document that leaves the segment list as it is
new_document_KeepsSegments ==
    /\ op' = "new_document" /\ arg' = "" /\ ret' = "none"
    /\ UNCHANGED dynamic_functions
    /\ content' = ""
    /\ file_path' = None
    /\ modified' = FALSE
    /\ UNCHANGED segments
    /\ UNCHANGED <<files, text, cursor, in_window, edits, pending>>
    /\ UNCHANGED coreVars

\* EditorCore.new_document
new_document ==
    /\ op' = "new_document" /\ arg' = "" /\ ret' = "none"
    /\ UNCHANGED dynamic_functions
    /\ content' = ""
    /\ file_path' = None
    /\ modified' = FALSE
    /\ segments' = <<>>
    /\ UNCHANGED <<files, text, cursor, in_window, edits, pending>>
    /\ UNCHANGED coreVars

----------------------------------------------------------------------------
(* XML validity *)

\* the characters an element name starts with and continues with (names
\* with a colon need a namespace declaration and are not modelled)
NameStartChars == CharsOf(LowerLetters) \cup CharsOf(UpperLetters) \cup {"_"}
NameChars == NameStartChars \cup CharsOf("0123456789-.")

\* s without the white space at its end
TrimRight(s) ==
    LET ends == { e \in 0..Len(s) : \A i \in e..(Len(s) - 1) : CharAt(s, i) \in Whitespace }
    IN  Slice(s, 0, Min(ends))

\* the text of a tag after "<" or "</" is a name and optional white space
IsName(inner) ==
    LET n == TrimRight(inner) IN
    /\ Len(n) > 0
    /\ CharAt(n, 0) \in NameStartChars
    /\ \A c \in CharsOf(n) : c \in NameChars

\* character data between two tags: outside the root element only white
\* space is allowed; inside it no "&" (entity references are not modelled),
\* no "<" and no "]]>"
CharDataAllowed(chunk, depth) ==
    IF depth = 0 THEN IsBlank(chunk)
    ELSE ~Contains(chunk, "&") /\ ~Contains(chunk, "]]>")

RECURSIVE XmlScan(_, _, _, _)
\* what ET.fromstring accepts, for documents made of comments, elements
\* without attributes and character data: s is scanned from offset i with
\* the names of the open elements in stack; seenRoot says that the root
\* element has been opened
XmlScan(s, i, stack, seenRoot) ==
    IF i >= Len(s) THEN stack = <<>> /\ seenRoot
    ELSE IF CharAt(s, i) # "<"
    THEN LET lt == Find(s, "<", i)
             j  == IF lt = -1 THEN Len(s) ELSE lt
         IN  /\ CharDataAllowed(Slice(s, i, j), Len(stack))
             /\ XmlScan(s, j, stack, seenRoot)
    ELSE IF StartsWithAt(s, "<!--", i)
    THEN LET e == Find(s, "--", i + 4)
         IN  /\ e # -1
             /\ StartsWithAt(s, "-->", e)
             /\ XmlScan(s, e + 3, stack, seenRoot)
    ELSE LET e == Find(s, ">", i) IN
         IF e = -1 THEN FALSE
         ELSE IF StartsWithAt(s, "</", i)
         THEN LET name == TrimRight(Slice(s, i + 2, e))
              IN  /\ stack # <<>>
                  /\ IsName(name)
                  /\ stack[Len(stack)] = name
                  /\ XmlScan(s, e + 1, SubSeq(stack, 1, Len(stack) - 1), seenRoot)
         ELSE LET empty == CharAt(s, e - 1) = "/" /\ e - 1 > i
                  name  == TrimRight(IF empty THEN Slice(s, i + 1, e - 1)
                                     ELSE Slice(s, i + 1, e))
              IN  /\ IsName(name)
                  /\ ~(stack = <<>> /\ seenRoot)
                  /\ XmlScan(s, e + 1, IF empty THEN stack ELSE Append(stack, name), TRUE)

\* DocumentManager.validate_xml: (is_valid, error); the text of the parser's
\* message is not modelled
validate_xml(c) ==
    IF IsBlank(c) THEN <<TRUE, None>>
    ELSE IF XmlScan(c, 0, <<>>, FALSE) THEN <<TRUE, None>>
         ELSE <<FALSE, Some("ParseError")>>

\* can_switch_to_styled that asks nothing
can_switch_to_styled_Always(c) == <<TRUE, None>>

\* EditorCore.can_switch_to_styled, for a store holding content c
can_switch_to_styled(c) ==
    LET v == validate_xml(c) IN
    IF ~v[1] THEN <<FALSE, Some("Invalid XML: " \o v[2][1])>>
    ELSE <<TRUE, None>>

----------------------------------------------------------------------------
(* Editor core: display content, view mode, grid, observers *)

\* DocumentManager.evaluate_dynamic_segment
evaluate_dynamic_segment(segment) ==
    IF ~is_dynamic(segment.metadata) \/ segment.metadata.dynamic = None
    THEN segment.content
    ELSE "[DYNAMIC: " \o segment.metadata.dynamic[1].function \o "]"

\* DocumentManager.register_dynamic_function
register_dynamic_function(name) ==
    /\ op' = "register_dynamic_function" /\ arg' = name /\ ret' = "none"
    /\ dynamic_functions' = dynamic_functions \cup {name}
    /\ UNCHANGED <<content, file_path, modified, segments, files, text, cursor,
                   in_window, edits, pending>>
    /\ UNCHANGED coreVars

\* an evaluation that calls the provider registered under the function name
EvaluateSegment_Invoking(i) ==
    /\ i \in 1..Len(segments)
    /\ op' = "evaluate_dynamic_segment" /\ arg' = segments[i].metadata.id
    /\ IF is_dynamic(segments[i].metadata)
          /\ segments[i].metadata.dynamic[1].function \in dynamic_functions
       THEN /\ ret' = "provided"
            /\ calls' = << [observer |-> segments[i].metadata.dynamic[1].function,
                            value |-> segments[i].content] >>
       ELSE /\ ret' = evaluate_dynamic_segment(segments[i])
            /\ calls' = <<>>
    /\ UNCHANGED <<content, file_path, modified, segments, files, text, cursor,
                   in_window, edits, pending, dynamic_functions>>
    /\ UNCHANGED <<current_mode, grid_visible, view_mode_callbacks, grid_callbacks, source_text>>

\* a call of DocumentManager.evaluate_dynamic_segment on the i-th stored
\* segment; calls lists the callables it invoked: none
EvaluateSegment(i) ==
    /\ i \in 1..Len(segments)
    /\ op' = "evaluate_dynamic_segment" /\ arg' = segments[i].metadata.id
    /\ ret' = evaluate_dynamic_segment(segments[i])
    /\ calls' = <<>>
    /\ UNCHANGED <<content, file_path, modified, segments, files, text, cursor,
                   in_window, edits, pending, dynamic_functions>>
    /\ UNCHANGED <<current_mode, grid_visible, view_mode_callbacks, grid_callbacks, source_text>>

RECURSIVE ProcessedContent(_, _)
\* the loop of _get_styled_content over the first n segments
ProcessedContent(segs, n) ==
    IF n = 0 THEN ""
    ELSE ProcessedContent(segs, n - 1) \o
         (IF is_dynamic(segs[n].metadata) THEN evaluate_dynamic_segment(segs[n])
          ELSE segs[n].content)

\* a styled content that shows a dynamic segment's own text
_get_styled_content_Raw(c, segs) ==
    IF segs = <<>> THEN c
    ELSE LET Join[n \in 0..Len(segs)] ==
                 IF n = 0 THEN "" ELSE Join[n - 1] \o segs[n].content
         IN  Join[Len(segs)]

\* EditorCore._get_styled_content, for a store holding content c and segments segs
_get_styled_content(c, segs) ==
    IF segs = <<>> THEN c
    ELSE ProcessedContent(segs, Len(segs))

\* EditorCore.get_display_content in the given mode
get_display_content(mode, c, segs) ==
    IF mode = "source" THEN c ELSE _get_styled_content(c, segs)

\* ViewMode
ViewMode == {"styled", "source"}

\* a notification loop without the try/except: it ends at the first observer
\* that raises
Notify_Unguarded(callbacks, value) ==
    LET raising == { i \in 1..Len(callbacks) : callbacks[i].raises }
        last    == IF raising = {} THEN Len(callbacks) ELSE Min(raising)
    IN  [i \in 1..last |-> [observer |-> callbacks[i].name, value |-> value]]

\* EditorCore._notify_mode_change / _notify_grid_change: every callback is
\* called in list order with the value; what it raises is discarded
Notify(callbacks, value) ==
    [i \in 1..Len(callbacks) |-> [observer |-> callbacks[i].name, value |-> value]]

\* set_mode without the test for an unchanged mode
set_mode_Always(mode) ==
    /\ op' = "set_mode" /\ arg' = mode /\ ret' = "none"
    /\ UNCHANGED dynamic_functions
    /\ current_mode' = mode
    /\ calls' = Notify(view_mode_callbacks, mode)
    /\ UNCHANGED <<grid_visible, view_mode_callbacks, grid_callbacks, source_text>>
    /\ UNCHANGED <<content, file_path, modified, segments, files, text, cursor,
                   in_window, edits, pending>>

\* EditorCore.set_mode with observers that do not call back into the core
set_mode(mode) ==
    /\ op' = "set_mode" /\ arg' = mode /\ ret' = "none"
    /\ UNCHANGED dynamic_functions
    /\ IF current_mode # mode
       THEN /\ current_mode' = mode
            /\ calls' = Notify(view_mode_callbacks, mode)
       ELSE /\ UNCHANGED current_mode
            /\ calls' = <<>>
    /\ UNCHANGED <<grid_visible, view_mode_callbacks, grid_callbacks, source_text>>
    /\ UNCHANGED <<content, file_path, modified, segments, files, text, cursor,
                   in_window, edits, pending>>

\* EditorCore.toggle_grid
toggle_grid ==
    /\ op' = "toggle_grid" /\ arg' = "" /\ ret' = "none"
    /\ UNCHANGED dynamic_functions
    /\ grid_visible' = ~grid_visible
    /\ calls' = Notify(grid_callbacks, grid_visible')
    /\ UNCHANGED <<current_mode, view_mode_callbacks, grid_callbacks, source_text>>
    /\ UNCHANGED <<content, file_path, modified, segments, files, text, cursor,
                   in_window, edits, pending>>

\* EditorCore.register_mode_change_callback
register_mode_change_callback(callback) ==
    /\ Len(view_mode_callbacks) < MaxObservers
    /\ op' = "register_mode_change_callback" /\ arg' = callback.name /\ ret' = "none"
    /\ UNCHANGED dynamic_functions
    /\ view_mode_callbacks' = Append(view_mode_callbacks, callback)
    /\ UNCHANGED <<current_mode, grid_visible, grid_callbacks, calls, source_text>>
    /\ UNCHANGED <<content, file_path, modified, segments, files, text, cursor,
                   in_window, edits, pending>>

\* EditorCore.register_grid_change_callback
register_grid_change_callback(callback) ==
    /\ Len(grid_callbacks) < MaxObservers
    /\ op' = "register_grid_change_callback" /\ arg' = callback.name /\ ret' = "none"
    /\ UNCHANGED dynamic_functions
    /\ grid_callbacks' = Append(grid_callbacks, callback)
    /\ UNCHANGED <<current_mode, grid_visible, view_mode_callbacks, calls, source_text>>
    /\ UNCHANGED <<content, file_path, modified, segments, files, text, cursor,
                   in_window, edits, pending>>

----------------------------------------------------------------------------
(* Container codec *)

EnvelopeHead ==
    "<?xml version='1.0' encoding='unicode'?>\n<xedit version=\"1.0\">\n  <metadata/>\n  <document><![CDATA["

\* the same with the empty metadata element written "<metadata />"
EnvelopeHeadSpaced ==
    "<?xml version='1.0' encoding='unicode'?>\n<xedit version=\"1.0\">\n  <metadata />\n  <document><![CDATA["

EnvelopeTail == "]]></document>\n</xedit>"

\* the container text of raw content c: c verbatim in one CDATA section
Envelope(c) == EnvelopeHead \o c \o EnvelopeTail

\* The content of the document element of a container text, None when the
\* text is not a well-formed container.  A CDATA section ends at the first
\* "]]>"; what follows it must be the closing tags, since "]]>" in character
\* data is not well-formed; an XML parser hands out "\r\n" and "\r" as "\n".
DocumentOf(data) ==
    LET heads == { h \in {EnvelopeHead, EnvelopeHeadSpaced} : StartsWithAt(data, h, 0) } IN
    IF heads = {} THEN None
    ELSE LET b == Len(CHOOSE h \in heads : TRUE)
             e == Find(data, "]]>", b)
         IN  IF e = -1 \/ Slice(data, e, Len(data)) # EnvelopeTail THEN None
             ELSE Some(NormalizeNewlines(Slice(data, b, e)))

\* DocumentManager.save_to_xedit_file
save_to_xedit_file(path) ==
    /\ op' = "save_to_xedit_file" /\ arg' = path
    /\ UNCHANGED dynamic_functions
    /\ IF path \in Unwritable
       THEN /\ ret' = "FileSaveError"
            /\ UNCHANGED <<file_path, modified, files>>
       ELSE /\ ret' = "ok"
            /\ files' = [files EXCEPT ![path] = Some(File(Envelope(content), TRUE, Some(content)))]
            /\ file_path' = Some(path)
            /\ modified' = FALSE
    /\ UNCHANGED <<content, segments, text, cursor, in_window, edits, pending>>
    /\ UNCHANGED coreVars

\* DocumentManager.load_from_xedit_file
load_from_xedit_file(path) ==
    /\ op' = "load_from_xedit_file" /\ arg' = path
    /\ UNCHANGED dynamic_functions
    /\ IF files[path] = None \/ ~files[path][1].utf8 \/ DocumentOf(files[path][1].data) = None
       THEN /\ ret' = "FileLoadError"
            /\ UNCHANGED docVars
       ELSE /\ ret' = "ok"
            /\ content' = DocumentOf(files[path][1].data)[1]
            /\ file_path' = Some(path)
            /\ modified' = FALSE
            /\ segments' = _parse_segments(content')
    /\ UNCHANGED <<files, text, cursor, in_window, edits, pending>>
    /\ UNCHANGED coreVars

----------------------------------------------------------------------------
(* Specification of the parser: one drawn document is assigned *)

InitStore ==
    /\ content = ""
    /\ file_path = None
    /\ modified = FALSE
    /\ segments = <<>>
    /\ dynamic_functions = {}
    /\ op = "init" /\ arg = "" /\ ret = "none"

\* EditorCore.__init__: styled view, grid hidden, no observer registered
InitCore ==
    /\ current_mode = "styled"
    /\ grid_visible = FALSE
    /\ view_mode_callbacks = <<>>
    /\ grid_callbacks = <<>>
    /\ calls = <<>>
    /\ source_text = ""

\* no editor widget exists
NoWidget ==
    /\ text = ""
    /\ cursor = 0
    /\ in_window = FALSE
    /\ edits = 0

InitParse ==
    /\ InitStore
    /\ InitCore
    /\ NoWidget
    /\ files = <<>>
    /\ pending \in { Some(d) : d \in Docs }

NextParse == AssignPending

SpecParse == InitParse /\ [][NextParse]_vars

----------------------------------------------------------------------------
(* Claims about the parser and the position lock *)

\* what the claims call locked: the locked flag or a dynamic descriptor
DeclaredLocked(metadata) == metadata.locked \/ metadata.dynamic # <<>>

PositionsOf(segment) == segment.start_pos..(segment.end_pos - 1)

\* C1: every position inside the range of a locked segment is reported
\* locked (and not editable), and every position inside the range of an
\* unlocked segment is reported editable.
C1_PositionLockFollowsSegment ==
    \A i \in 1..Len(segments) : \A p \in PositionsOf(segments[i]) :
        /\ is_position_locked(segments, p) = DeclaredLocked(segments[i].metadata)
        /\ can_edit_at_position(segments, p) = ~DeclaredLocked(segments[i].metadata)

\* C2: is_locked is (locked OR dynamic present); the segment "d", declared
\* with locked="false" and a dynamic function, is locked.
C2_DynamicIsLocked ==
    \A i \in 1..Len(segments) :
        LET m == segments[i].metadata IN
        /\ is_locked(m) = (m.locked \/ m.dynamic # <<>>)
        /\ m.id = "d" => (is_locked(m) /\ ~m.locked /\ m.dynamic # <<>>)
        /\ m.id = "d" => \A p \in PositionsOf(segments[i]) :
               get_segment_at_position(segments, p) = <<segments[i]>>
                   => is_position_locked(segments, p)

\* a parsed segment that is dynamic and whose marker says locked="false"
C2_Witness ==
    /\ op = "content"
    /\ Contains(content, "locked=\"false\", dynamic=")
    /\ \E i \in 1..Len(segments) :
          /\ segments[i].metadata.id = "d"
          /\ ~segments[i].metadata.locked
          /\ segments[i].metadata.dynamic = <<[function |-> "f", deps |-> <<"a", "b">>]>>

\* no marker at all, or only markers without an id attribute
NoValidMarker(c) == ~Contains(c, "SEGMENT:") \/ ~Contains(c, "id=")

\* C10: content without a valid marker parses to the one default segment
\* spanning the whole content; blank content parses to no segment.
C10_DefaultSegment ==
    (op = "content" /\ NoValidMarker(content)) =>
        IF \A i \in 1..Len(content) : SubSeq(content, i, i) \in {" ", "\n", "\t", "\r"}
        THEN segments = <<>>
        ELSE segments = << [content |-> content,
                            metadata |-> [id |-> "default_segment", locked |-> FALSE,
                                          double_width |-> FALSE, dynamic |-> <<>>],
                            start_pos |-> 0, end_pos |-> Len(content)] >>

\* a document holding only a marker without id and text got the default segment
C10_Witness ==
    /\ op = "content"
    /\ Contains(content, "<!-- SEGMENT: locked=")
    /\ ~Contains(content, "id=")
    /\ Len(segments) = 1
    /\ segments[1].metadata.id = "default_segment"
    /\ segments[1].end_pos = Len(content)

\* the segments of segs whose half-open range holds position p
Covering(segs, p) ==
    { i \in 1..Len(segs) : segs[i].start_pos <= p /\ p < segs[i].end_pos }

\* C11: get_segment_at_position(p) is the first segment in list order with
\* start_pos <= p < end_pos and nothing when there is none; a segment does
\* not cover its own end_pos; is_position_locked(p) is false when nothing
\* covers p and otherwise the lock of the first covering segment.
C11_FirstCoveringSegment ==
    /\ \A p \in 0..(Len(content) + 1) :
          LET cov == Covering(segments, p) IN
          IF cov = {}
          THEN /\ get_segment_at_position(segments, p) = <<>>
               /\ ~is_position_locked(segments, p)
          ELSE LET first == CHOOSE i \in cov : \A j \in cov : i <= j IN
               /\ get_segment_at_position(segments, p) = <<segments[first]>>
               /\ is_position_locked(segments, p) = DeclaredLocked(segments[first].metadata)
    /\ \A i \in 1..Len(segments) :
          LET found == get_segment_at_position(segments, segments[i].end_pos) IN
          found # <<>> => found[1].end_pos > segments[i].end_pos

\* an offset inside two parsed segments is answered with the first of them,
\* and the offset at the end of that segment with nothing
C11_Witness ==
    /\ op = "content"
    /\ Len(segments) = 2
    /\ \E p \in 0..Len(content) :
          /\ Covering(segments, p) = {1, 2}
          /\ get_segment_at_position(segments, p) = <<segments[1]>>
    /\ get_segment_at_position(segments, segments[1].end_pos) = <<>>

----------------------------------------------------------------------------
(* Editor widget: text entry *)

MAX_LINE_LENGTH == 80

Max(S) == CHOOSE m \in S : \A n \in S : n <= m

\* QTextCursor.block().position(): offset of the first character of the
\* line holding offset pos
BlockStart(t, pos) ==
    LET breaks == { k \in 0..(pos - 1) : CharAt(t, k) = "\n" }
    IN  IF breaks = {} THEN 0 ELSE Max(breaks) + 1

\* offset just after the last character of the line holding offset pos
BlockEnd(t, pos) ==
    LET breaks == { k \in pos..(Len(t) - 1) : CharAt(t, k) = "\n" }
    IN  IF breaks = {} THEN Len(t) ELSE Min(breaks)

\* QTextCursor.block().text()
BlockText(t, pos) == Slice(t, BlockStart(t, pos), BlockEnd(t, pos))

\* QTextCursor.positionInBlock()
PositionInBlock(t, pos) == pos - BlockStart(t, pos)

\* the cap tested with > where the code has >=
TextInputBranch_OffByOne(line_text, cursor_position_in_line) ==
    IF Len(line_text) > MAX_LINE_LENGTH /\ cursor_position_in_line > MAX_LINE_LENGTH
    THEN "Block"
    ELSE IF cursor_position_in_line < Len(line_text)
         THEN "Overwrite"
         ELSE IF Len(line_text) <= MAX_LINE_LENGTH THEN "Append" ELSE "Block"

\* the branch EditorWidget._handle_text_input takes
TextInputBranch(line_text, cursor_position_in_line) ==
    IF Len(line_text) >= MAX_LINE_LENGTH /\ cursor_position_in_line >= MAX_LINE_LENGTH
    THEN "Block"
    ELSE IF cursor_position_in_line < Len(line_text)
         THEN "Overwrite"
         ELSE IF Len(line_text) < MAX_LINE_LENGTH THEN "Append" ELSE "Block"

\* an overwrite that inserts: the character under the cursor is not selected
_handle_text_input_Inserting(t, pos, ch) ==
    LET branch == TextInputBranch(BlockText(t, pos), PositionInBlock(t, pos)) IN
    IF branch \in {"Overwrite", "Append"}
    THEN [text |-> Slice(t, 0, pos) \o ch \o Slice(t, pos, Len(t)),
          cursor |-> pos + 1, branch |-> branch]
    ELSE [text |-> t, cursor |-> pos, branch |-> branch]

\* EditorWidget._handle_text_input: the widget's text and cursor afterwards
_handle_text_input(t, pos, ch) ==
    LET branch == TextInputBranch(BlockText(t, pos), PositionInBlock(t, pos)) IN
    IF branch = "Overwrite"
    THEN [text |-> Slice(t, 0, pos) \o ch \o Slice(t, pos + 1, Len(t)),
          cursor |-> pos + 1, branch |-> branch]
    ELSE IF branch = "Append"
         THEN [text |-> Slice(t, 0, pos) \o ch \o Slice(t, pos, Len(t)),
               cursor |-> pos + 1, branch |-> branch]
         ELSE [text |-> t, cursor |-> pos, branch |-> branch]

\* EditorWidget._is_position_in_locked_segment
_is_position_in_locked_segment(position) ==
    IF ~in_window THEN FALSE ELSE ~can_edit_at_position(segments, position)

\* A key handler that returns without editing: the text stays, the cursor
\* may have moved, textChanged is not emitted
WidgetMoves(newCursor) ==
    /\ cursor' = newCursor
    /\ UNCHANGED <<text, content, modified, segments, file_path, files, in_window, pending>>
    /\ UNCHANGED coreVars

\* The end of a key handler: the widget shows newText.  When the handler
\* edited the text inside the window, textChanged runs
\* MainWindow._on_text_changed, which assigns the widget's text to
\* DocumentManager.content (the setter, which re-parses on a new value).
WidgetShows(newText, newCursor, edited) ==
    /\ text' = newText
    /\ cursor' = newCursor
    /\ IF in_window /\ edited /\ content # newText
       THEN /\ content' = newText
            /\ modified' = TRUE
            /\ segments' = _parse_segments(newText)
       ELSE UNCHANGED <<content, modified, segments>>
    /\ UNCHANGED <<file_path, files, in_window, pending>>
    /\ UNCHANGED coreVars

\* EditorWidget.keyPressEvent for a printable character
KeyText(ch) ==
    /\ op' = "KeyText" /\ arg' = ch
    /\ UNCHANGED dynamic_functions
    /\ IF _is_position_in_locked_segment(cursor)
       THEN /\ ret' = "Locked"
            /\ WidgetMoves(cursor)
       ELSE LET r == _handle_text_input(text, cursor, ch) IN
            /\ ret' = r.branch
            /\ WidgetShows(r.text, r.cursor, r.branch # "Block")

\* the lock test of Backspace made at the cursor, not before it
_is_deletion_in_locked_segment_AtCursor(key, current_pos) ==
    IF ~in_window THEN FALSE
    ELSE IF key = "Key_Backspace"
         THEN IF current_pos > 0
              THEN _is_position_in_locked_segment(current_pos) ELSE FALSE
         ELSE IF key = "Key_Delete"
              THEN _is_position_in_locked_segment(current_pos) ELSE FALSE

\* EditorWidget._is_deletion_in_locked_segment
_is_deletion_in_locked_segment(key, current_pos) ==
    IF ~in_window THEN FALSE
    ELSE IF key = "Key_Backspace"
         THEN IF current_pos > 0
              THEN _is_position_in_locked_segment(current_pos - 1) ELSE FALSE
         ELSE IF key = "Key_Delete"
              THEN _is_position_in_locked_segment(current_pos) ELSE FALSE

\* EditorWidget.keyPressEvent for Key_Left and Key_Right: the default handler
\* of QPlainTextEdit moves the cursor by one character
KeyNavigation(key) ==
    /\ op' = "KeyNavigation" /\ arg' = key /\ ret' = "none"
    /\ UNCHANGED dynamic_functions
    /\ WidgetMoves(IF key = "Key_Left" THEN (IF cursor > 0 THEN cursor - 1 ELSE cursor)
                   ELSE (IF cursor < Len(text) THEN cursor + 1 ELSE cursor))

\* EditorWidget.keyPressEvent for Key_Return and Key_Enter: the default
\* handler inserts a line break at the cursor
KeyReturn ==
    /\ op' = "KeyReturn" /\ arg' = "" /\ ret' = "Inserted"
    /\ UNCHANGED dynamic_functions
    /\ WidgetShows(Slice(text, 0, cursor) \o "\n" \o Slice(text, cursor, Len(text)),
                   cursor + 1, TRUE)

\* EditorWidget.keyPressEvent for Key_Backspace: unless the lock test blocks
\* it, the default handler deletes the character before the cursor
KeyBackspace ==
    /\ op' = "KeyBackspace" /\ arg' = ""
    /\ UNCHANGED dynamic_functions
    /\ IF _is_deletion_in_locked_segment("Key_Backspace", cursor)
       THEN /\ ret' = "Locked"
            /\ WidgetMoves(cursor)
       ELSE IF cursor > 0
            THEN /\ ret' = "Deleted"
                 /\ WidgetShows(Slice(text, 0, cursor - 1) \o Slice(text, cursor, Len(text)),
                                cursor - 1, TRUE)
            ELSE /\ ret' = "none"
                 /\ WidgetMoves(cursor)

\* EditorWidget.keyPressEvent for Key_Delete: unless the lock test blocks it,
\* the default handler deletes the character at the cursor
KeyDelete ==
    /\ op' = "KeyDelete" /\ arg' = ""
    /\ UNCHANGED dynamic_functions
    /\ IF _is_deletion_in_locked_segment("Key_Delete", cursor)
       THEN /\ ret' = "Locked"
            /\ WidgetMoves(cursor)
       ELSE IF cursor < Len(text)
            THEN /\ ret' = "Deleted"
                 /\ WidgetShows(Slice(text, 0, cursor) \o Slice(text, cursor + 1, Len(text)),
                                cursor, TRUE)
            ELSE /\ ret' = "none"
                 /\ WidgetMoves(cursor)

\* MainWindow._open_document on an unmodified document (_check_save_changes
\* asks nothing): load_from_file, then the editor is given the content; a
\* failed load shows a message and changes nothing
OpenDocument(path) ==
    /\ in_window
    /\ ~modified
    /\ op' = "open_document" /\ arg' = path
    /\ UNCHANGED dynamic_functions
    /\ IF files[path] = None \/ ~files[path][1].utf8
       THEN /\ ret' = "FileLoadError"
            /\ UNCHANGED <<content, file_path, modified, segments, text, cursor, source_text>>
       ELSE /\ ret' = "ok"
            /\ content' = ReadText(files[path][1].data)
            /\ file_path' = Some(path)
            /\ modified' = FALSE
            /\ segments' = _parse_segments(content')
            /\ IF current_mode = "styled"
               THEN text' = content' /\ cursor' = 0 /\ UNCHANGED source_text
               ELSE source_text' = content' /\ UNCHANGED <<text, cursor>>
    /\ UNCHANGED <<files, in_window, edits, pending>>
    /\ UNCHANGED <<current_mode, grid_visible, view_mode_callbacks, grid_callbacks, calls>>

\* the store after the content setter ran in _switch_view_mode
Synced(c1, s1) ==
    /\ content' = c1
    /\ modified' = IF content # c1 THEN TRUE ELSE modified
    /\ segments' = s1

\* MainWindow._update_view_mode after the mode changed to mode: the store
\* holds c1 and s1 and display is get_display_content()
ShowDisplay(mode, c1, s1, display) ==
    IF mode = "styled"
    THEN /\ UNCHANGED source_text
         /\ IF display # text
            THEN /\ text' = display
                 /\ cursor' = 0
                 /\ IF display # c1
                    THEN /\ content' = display
                         /\ modified' = TRUE
                         /\ segments' = _parse_segments(display)
                    ELSE Synced(c1, s1)
            ELSE /\ UNCHANGED <<text, cursor>>
                 /\ Synced(c1, s1)
    ELSE /\ UNCHANGED <<text, cursor>>
         /\ source_text' = display
         /\ Synced(c1, s1)

\* _switch_view_mode once the current editor's text c1 has been assigned to
\* the content, giving the segments s1
SwitchSynced(mode, c1, s1) ==
    IF mode = "styled" /\ ~can_switch_to_styled(c1)[1]
    THEN /\ ret' = "Invalid XML"
         /\ Synced(c1, s1)
         /\ calls' = <<>>
         /\ UNCHANGED <<current_mode, text, cursor, source_text>>
    ELSE IF mode = current_mode
    THEN /\ ret' = "none"
         /\ Synced(c1, s1)
         /\ calls' = <<>>
         /\ UNCHANGED <<current_mode, text, cursor, source_text>>
    ELSE /\ ret' = "none"
         /\ current_mode' = mode
         /\ calls' = Notify(view_mode_callbacks, mode)
         /\ ShowDisplay(mode, c1, s1, get_display_content(mode, c1, s1))

\* MainWindow._switch_view_mode: the current editor's text is assigned to
\* the content, a switch to Styled is refused on invalid XML, set_mode
\* notifies MainWindow._on_mode_change, whose _update_view_mode gives the
\* display content to the editor of the new mode when it differs from what
\* that editor holds; the editor's textChanged then assigns its text to the
\* content (MainWindow._on_text_changed)
_switch_view_mode(mode) ==
    /\ in_window
    /\ op' = "_switch_view_mode" /\ arg' = mode
    /\ UNCHANGED dynamic_functions
    /\ SwitchSynced(mode,
                    IF current_mode = "styled" THEN text ELSE source_text,
                    IF content # (IF current_mode = "styled" THEN text ELSE source_text)
                    THEN _parse_segments(IF current_mode = "styled" THEN text ELSE source_text)
                    ELSE segments)
    /\ UNCHANGED <<file_path, files, in_window, edits, pending,
                   grid_visible, view_mode_callbacks, grid_callbacks>>

\* a character typed into, or deleted from, MainWindow.source_editor (a plain
\* QPlainTextEdit) at any offset; textChanged assigns the text to the content
SourceEdit(newText) ==
    /\ in_window
    /\ current_mode = "source"
    /\ op' = "SourceEdit" /\ arg' = "" /\ ret' = "none"
    /\ UNCHANGED dynamic_functions
    /\ source_text' = newText
    /\ IF content # newText
       THEN /\ content' = newText
            /\ modified' = TRUE
            /\ segments' = _parse_segments(newText)
       ELSE UNCHANGED <<content, modified, segments>>
    /\ UNCHANGED <<file_path, files, text, cursor, in_window, pending,
                   current_mode, grid_visible, view_mode_callbacks, grid_callbacks, calls>>

\* the texts one key press in the source editor turns t into: a character
\* typed at either end of the text or just after its first tag, or one
\* deleted at either end
SourceEdits(t) ==
    { Slice(t, 0, i) \o ch \o Slice(t, i, Len(t)) :
        i \in {0, Find(t, ">", 0) + 1, Len(t)}, ch \in {"x", "<"} }
    \cup { Slice(t, 0, i) \o Slice(t, i + 1, Len(t)) : i \in {0, Len(t) - 1} \cap 0..(Len(t) - 1) }

----------------------------------------------------------------------------
(* Specification of text entry: a widget of its own holding one line *)

RECURSIVE Repeat(_, _)
Repeat(ch, n) == IF n = 0 THEN "" ELSE ch \o Repeat(ch, n - 1)

Lines == { Repeat("a", n) : n \in 0..MaxLineLen }
             \cup {"Hello", "Hello\nWorld", Repeat("a", 80) \o "\n" \o Repeat("a", 79)}

\* EditorWidget(); set_content(line); setTextCursor at any offset of the line
InitEngine ==
    /\ InitStore
    /\ InitCore
    /\ files = <<>>
    /\ pending = None
    /\ in_window = FALSE
    /\ edits = 0
    /\ text \in Lines
    /\ cursor \in 0..Len(text)

NextEngine == KeyText("x") /\ UNCHANGED edits

SpecEngine == InitEngine /\ [][NextEngine]_vars

----------------------------------------------------------------------------
(* Claims about text entry *)

RECURSIVE LinesOf(_)
\* the lines of a text, split at its line breaks
LinesOf(t) ==
    IF \A i \in 1..Len(t) : SubSeq(t, i, i) # "\n" THEN <<t>>
    ELSE LET b == CHOOSE i \in 1..Len(t) :
                     SubSeq(t, i, i) = "\n" /\ \A j \in 1..(i - 1) : SubSeq(t, j, j) # "\n"
         IN  <<SubSeq(t, 1, b - 1)>> \o LinesOf(SubSeq(t, b + 1, Len(t)))

\* index of the line holding offset pos, and the offset of pos inside it
LineIndex(t, pos) == 1 + Cardinality({ i \in 1..pos : SubSeq(t, i, i) = "\n" })
LineOffset(t, pos) ==
    LET before == { i \in 1..pos : SubSeq(t, i, i) = "\n" }
    IN  IF before = {} THEN pos ELSE pos - Max(before)

\* the decision table of the specification
Decide(n, c) ==
    IF n >= 80 /\ c >= 80 THEN "Block"
    ELSE IF c < n THEN "Overwrite"
    ELSE IF n < 80 THEN "Append" ELSE "Block"

C6_LineCeiling ==
    [][ op' = "KeyText" =>
          LET old == LinesOf(text)
              new == LinesOf(text')
              k   == LineIndex(text, cursor)
          IN  /\ ret' \in {"Block", "Overwrite", "Append"}
              /\ Len(new) = Len(old)
              /\ \A i \in 1..Len(old) :
                    /\ Len(new[i]) <= Max({Len(old[i]), 80})
                    /\ i # k => new[i] = old[i]
              /\ ret' = "Overwrite" =>
                    /\ cursor < Len(text)
                    /\ Len(new[k]) = Len(old[k])
                    /\ text' = SubSeq(text, 1, cursor) \o arg' \o SubSeq(text, cursor + 2, Len(text))
                    /\ cursor' = cursor + 1
              /\ ret' = "Append" =>
                    /\ Len(old[k]) < 80
                    /\ Len(new[k]) = Len(old[k]) + 1
                    /\ text' = SubSeq(text, 1, cursor) \o arg' \o SubSeq(text, cursor + 1, Len(text))
              /\ ret' = "Block" => text' = text
              /\ (\A i \in 1..Len(old) : Len(old[i]) <= 80)
                    => \A i \in 1..Len(new) : Len(new[i]) <= 80 ]_vars

\* a full line was overwritten in place and kept its 80 characters
C6_Witness ==
    /\ op = "KeyText" /\ ret = "Overwrite"
    /\ Len(text) = 80
    /\ cursor = 41
    /\ SubSeq(text, 41, 41) = "x"

\* C7: a character typed with the cursor at the end of the text of its line
\* is blocked and leaves the content unchanged.
C7_EndOfLineBlocked ==
    [][ (op' = "KeyText" /\ LineOffset(text, cursor) = Len(LinesOf(text)[LineIndex(text, cursor)]))
            => (ret' = "Block" /\ text' = text) ]_vars

----------------------------------------------------------------------------
(* Specification of the document store *)

\* the container file of the tests (test_auto_detect_xedit_format_load)
TestContainer(c) == EnvelopeHeadSpaced \o c \o EnvelopeTail

StoreDocs == { "x",
               MarkerLocked \o "x" \o MarkerPlain \o "y",
               MarkerDynamic \o "z" \o MarkerLocked \o "x" }

SegmentIds == {"h", "b", "d", "default_segment", "none"}

\* a.xml and b.xedit are text files, ro/c.xml holds bytes that are not UTF-8
\* in a directory that cannot be written, missing.xml does not exist
InitFiles ==
    [p \in LoadPaths |->
        IF p = "a.xml" THEN Some(File(MarkerPlain \o "y", TRUE, None))
        ELSE IF p = "b.xedit" THEN Some(File(TestContainer("x"), TRUE, None))
        ELSE IF p = "ro/c.xml" THEN Some(File("?", FALSE, None))
        ELSE None]

InitStoreSpec ==
    /\ InitStore
    /\ InitCore
    /\ NoWidget
    /\ files = InitFiles
    /\ pending = None

NextStore ==
    \/ \E c \in StoreDocs : SetContent(c) /\ UNCHANGED pending
    \/ \E id \in SegmentIds : update_segment_content(id, "NEW")
    \/ \E p \in LoadPaths : load_from_file(p)
    \/ \E p \in {None} \cup { Some(q) : q \in Paths } : save_to_file(p)
    \/ mark_saved
    \/ new_document

SpecStore == InitStoreSpec /\ [][NextStore]_vars

----------------------------------------------------------------------------
(* Claims about the document store *)

\* C3: update_segment_content on an id whose segment is locked (by flag or by
\* a dynamic descriptor), or on an id no segment has, returns false and
\* changes neither the segments nor the content, the path or the modified
\* flag; no update ever changes a locked segment.
C3_LockedUpdateRefused ==
    [][ op' = "update_segment_content" =>
          LET named == { i \in 1..Len(segments) : segments[i].metadata.id = arg' } IN
          /\ (named = {} \/ DeclaredLocked(segments[Min(named)].metadata)) =>
                /\ ret' = "False"
                /\ segments' = segments
                /\ content' = content
                /\ modified' = modified
                /\ file_path' = file_path
          /\ Len(segments') = Len(segments)
          /\ \A i \in 1..Len(segments) :
                DeclaredLocked(segments[i].metadata) => segments'[i] = segments[i] ]_vars

\* an update of the dynamic segment "d" was refused on an unmodified document
C3_Witness ==
    /\ op = "update_segment_content" /\ arg = "d" /\ ret = "False"
    /\ ~modified
    /\ \E i \in 1..Len(segments) :
          /\ segments[i].metadata.id = "d"
          /\ ~segments[i].metadata.locked
          /\ segments[i].content = "z"

HasXEditExtension(path) ==
    Len(path) >= 6 /\ SubSeq(path, Len(path) - 5, Len(path)) = ".xedit"

\* data is an XML text with root element xedit whose document element holds c
IsContainerOf(data, c) ==
    /\ Contains(data, "<xedit version=\"1.0\">")
    /\ Contains(data, "<document><![CDATA[" \o c \o "]]></document>")
    /\ Contains(data, "</xedit>")

\* C9: save_to_file and load_from_file dispatch on the extension: a .xedit
\* path is written as the xedit envelope and read back as the content of
\* its document element, every other path is written and read unchanged.
C9_ExtensionDispatch ==
    [][ /\ (op' = "save_to_file" /\ ret' = "ok") =>
              IF HasXEditExtension(arg')
              THEN IsContainerOf(files'[arg'][1].data, content)
              ELSE files'[arg'][1].data = content
        /\ (op' = "load_from_file" /\ ret' = "ok") =>
              IF HasXEditExtension(arg')
              THEN IsContainerOf(files[arg'][1].data, content')
              ELSE content' = files[arg'][1].data ]_vars

\* C12: assigning the current content changes nothing (not the modified
\* flag, not segments changed by update_segment_content, not the path);
\* assigning another value replaces the content, sets modified and replaces
\* the segments by the parse of the new content.
C12_SetContentShortCircuit ==
    [][ op' = "content" =>
          IF arg' = content
          THEN /\ content' = content
               /\ modified' = modified
               /\ segments' = segments
               /\ file_path' = file_path
          ELSE /\ content' = arg'
               /\ modified' = TRUE
               /\ segments' = _parse_segments(arg')
               /\ file_path' = file_path ]_vars

\* the current content was assigned again while a segment held updated text
C12_Witness ==
    /\ op = "content" /\ arg = content
    /\ \E i \in 1..Len(segments) : segments[i].content = "NEW"

----------------------------------------------------------------------------
(* Specification of the container codec *)

CodecDocs == { "x",
               MarkerLocked \o "x" \o MarkerPlain \o "y",
               "x]]>y",
               "x\r\ny" }

NextCodec ==
    \/ \E c \in CodecDocs : SetContent(c) /\ UNCHANGED pending
    \/ \E p \in Paths : save_to_xedit_file(p)
    \/ \E p \in Paths : load_from_xedit_file(p)
    \/ new_document

SpecCodec == InitStoreSpec /\ [][NextCodec]_vars

\* C8: loading a container file that was saved from content c into a fresh
\* store yields content c, the segments parsed from c, the loaded path as
\* file_path and modified = false.
C8_ContainerRoundTrip ==
    [][ ( /\ op' = "load_from_xedit_file"
          /\ files[arg'] # <<>>
          /\ files[arg'][1].origin # <<>>
          /\ content = "" /\ segments = <<>> /\ file_path = <<>> /\ ~modified ) =>
          LET c == files[arg'][1].origin[1] IN
          /\ ret' = "ok"
          /\ content' = c
          /\ segments' = _parse_segments(c)
          /\ file_path' = <<arg'>>
          /\ modified' = FALSE ]_vars

----------------------------------------------------------------------------
(* Specification of the editor widget inside the window *)

WidgetFiles ==
    [p \in Paths |-> IF p = "a.xml"
                     THEN Some(File(MarkerLocked \o "xy\n" \o MarkerPlain \o "z", TRUE, None))
                     ELSE IF p = "b.xedit"
                          THEN Some(File(MarkerDynamic \o "z", TRUE, None))
                          ELSE None]

\* MainWindow.__init__: an empty document shown in the styled editor
InitWidget ==
    /\ InitStore
    /\ current_mode = "styled"
    /\ grid_visible = FALSE
    /\ view_mode_callbacks = << [name |-> "_on_mode_change", raises |-> FALSE] >>
    /\ grid_callbacks = << [name |-> "_on_grid_change", raises |-> FALSE] >>
    /\ calls = <<>>
    /\ source_text = ""
    /\ text = ""
    /\ cursor = 0
    /\ in_window = TRUE
    /\ edits = 0
    /\ files = WidgetFiles
    /\ pending = None

NextWidget ==
    \/ \E p \in Paths : OpenDocument(p)
    \/ edits < MaxEdits /\ \E k \in {"Key_Left", "Key_Right"} : KeyNavigation(k) /\ UNCHANGED edits
    \/ edits < MaxEdits /\ KeyText("x") /\ edits' = edits + 1
    \/ edits < MaxEdits /\ KeyReturn /\ edits' = edits + 1
    \/ edits < MaxEdits /\ KeyBackspace /\ edits' = edits + 1
    \/ edits < MaxEdits /\ KeyDelete /\ edits' = edits + 1

SpecWidget == InitWidget /\ [][NextWidget]_vars

\* C4: a key event with the cursor inside the range of a locked segment
\* leaves the text of that range as it was (at its offsets, or one to the
\* left when the character before the range was deleted).
C4_LockedTextUntouched ==
    [][ (op' \in {"KeyText", "KeyBackspace", "KeyDelete", "KeyReturn"} /\ text = content) =>
          \A i \in 1..Len(segments) :
             LET a == segments[i].start_pos
                 b == segments[i].end_pos
             IN  (DeclaredLocked(segments[i].metadata) /\ a <= cursor /\ cursor < b) =>
                    \/ Len(text') >= b /\ SubSeq(text', a + 1, b) = SubSeq(text, a + 1, b)
                    \/ a > 0 /\ SubSeq(text', a, b - 1) = SubSeq(text, a + 1, b) ]_vars

----------------------------------------------------------------------------
(* Specification of the editor core's view mode, grid and observers *)

\* the callbacks that get registered: f returns, g raises an exception
Observers == { [name |-> "f", raises |-> FALSE], [name |-> "g", raises |-> TRUE] }

InitCoreSpec ==
    /\ InitStore
    /\ InitCore
    /\ NoWidget
    /\ files = <<>>
    /\ pending = None

NextCore ==
    \/ \E cb \in Observers : register_mode_change_callback(cb)
    \/ \E cb \in Observers : register_grid_change_callback(cb)
    \/ \E m \in ViewMode : set_mode(m)
    \/ toggle_grid

SpecCore == InitCoreSpec /\ [][NextCore]_vars

\* how often the observer called name appears in a list of registrations
Registered(callbacks, name) ==
    Cardinality({ i \in 1..Len(callbacks) : callbacks[i].name = name })

\* how often the observer called name was invoked with value
Invoked(log, name, value) ==
    Cardinality({ i \in 1..Len(log) : log[i].observer = name /\ log[i].value = value })

\* C15: the mode starts as Styled and is Styled or Source; set_mode with the
\* current mode changes nothing and invokes nobody; set_mode with the other
\* mode sets it and invokes every registered mode observer once, in
\* registration order, with the new mode.
C15_SetModeNotifiesOnChange ==
    [][ /\ op = "init" => current_mode = "styled"
        /\ current_mode' \in {"styled", "source"}
        /\ op' = "set_mode" =>
              /\ UNCHANGED <<grid_visible, view_mode_callbacks, grid_callbacks, docVars>>
              /\ IF arg' = current_mode
                 THEN /\ current_mode' = current_mode
                      /\ calls' = <<>>
                 ELSE /\ current_mode' = arg'
                      /\ Len(calls') = Len(view_mode_callbacks)
                      /\ \A i \in 1..Len(calls') :
                            /\ calls'[i].observer = view_mode_callbacks[i].name
                            /\ calls'[i].value = arg' ]_vars

\* set_mode("source") on a core already in Source mode with two observers
\* registered: nobody was invoked
C15_Witness ==
    /\ op = "set_mode" /\ arg = "source"
    /\ current_mode = "source"
    /\ Len(view_mode_callbacks) = 2
    /\ calls = <<>>

\* C16: set_mode with another mode and toggle_grid return normally and
\* update the value whichever observers raise, and every observer that does
\* not raise is invoked once per registration with the new value, before
\* and after one that raises.
C16_FailingObserverIsolated ==
    [][ /\ (op' = "set_mode" /\ arg' # current_mode) =>
              /\ ret' = "none"
              /\ current_mode' = arg'
              /\ \A i \in 1..Len(view_mode_callbacks) :
                    ~view_mode_callbacks[i].raises =>
                        Invoked(calls', view_mode_callbacks[i].name, arg')
                            = Registered(view_mode_callbacks, view_mode_callbacks[i].name)
        /\ op' = "toggle_grid" =>
              /\ ret' = "none"
              /\ grid_visible' = ~grid_visible
              /\ \A i \in 1..Len(grid_callbacks) :
                    ~grid_callbacks[i].raises =>
                        Invoked(calls', grid_callbacks[i].name, grid_visible')
                            = Registered(grid_callbacks, grid_callbacks[i].name) ]_vars

\* the grid was shown with a raising observer registered before a returning
\* one: the returning one was still told
C16_Witness ==
    /\ op = "toggle_grid"
    /\ grid_visible
    /\ Len(grid_callbacks) = 2
    /\ grid_callbacks[1].raises /\ ~grid_callbacks[2].raises
    /\ Len(calls) = 2
    /\ calls[2].observer = grid_callbacks[2].name
    /\ calls[2].value = TRUE

----------------------------------------------------------------------------
(* Specification of the display content: documents, segment updates, modes *)

ViewDocs == { "", " \n", "x", "<r>x</r>", "<r>x", MarkerNoId \o "x",
              MarkerDynamic \o "z" \o MarkerLocked \o "x",
              "<r>" \o MarkerPlain \o "y" \o MarkerDynamic \o "z</r>" }

\* the names providers are registered under: the one the documents use and
\* another
FunctionNames == {"f", "g"}

NextView ==
    \/ \E c \in ViewDocs : SetContent(c) /\ UNCHANGED pending
    \/ \E id \in {"b", "d", "default_segment"} : update_segment_content(id, "NEW")
    \/ \E m \in ViewMode : set_mode(m)
    \/ new_document
    \/ \E name \in FunctionNames : register_dynamic_function(name)
    \/ \E i \in 1..2 : EvaluateSegment(i)

SpecView == InitCoreSpec /\ [][NextView]_vars

\* what the styled view shows for one segment
Shown(segment) ==
    IF segment.metadata.dynamic # <<>>
    THEN "[DYNAMIC: " \o segment.metadata.dynamic[1].function \o "]"
    ELSE segment.content

----------------------------------------------------------------------------
(* Specification of the window: both editors and the view switch *)

WindowFiles ==
    [p \in Paths |-> IF p = "a.xml"
                     THEN Some(File("<r>" \o MarkerLocked \o "x</r>", TRUE, None))
                     ELSE IF p = "b.xedit"
                          THEN Some(File("<r>x</r>", TRUE, None))
                          ELSE None]

InitWindow ==
    /\ InitStore
    /\ current_mode = "styled"
    /\ grid_visible = FALSE
    /\ view_mode_callbacks = << [name |-> "_on_mode_change", raises |-> FALSE] >>
    /\ grid_callbacks = << [name |-> "_on_grid_change", raises |-> FALSE] >>
    /\ calls = <<>>
    /\ source_text = ""
    /\ text = ""
    /\ cursor = 0
    /\ in_window = TRUE
    /\ edits = 0
    /\ files = WindowFiles
    /\ pending = None

NextWindow ==
    \/ \E p \in Paths : OpenDocument(p)
    \/ \E m \in ViewMode : _switch_view_mode(m)
    \/ edits < MaxEdits /\ \E t \in SourceEdits(source_text) : SourceEdit(t) /\ edits' = edits + 1
    \/ edits < MaxEdits /\ current_mode = "styled" /\ KeyText("x") /\ edits' = edits + 1
    \/ edits < MaxEdits /\ current_mode = "styled" /\ KeyReturn /\ edits' = edits + 1
    \/ edits < MaxEdits /\ current_mode = "styled" /\ KeyBackspace /\ edits' = edits + 1
    \/ edits < MaxEdits /\ current_mode = "styled" /\ KeyDelete /\ edits' = edits + 1

SpecWindow == InitWindow /\ [][NextWindow]_vars

\* the text of the editor on screen, which _switch_view_mode assigns to the
\* content before it asks for validity
EditorText == IF current_mode = "styled" THEN text ELSE source_text

\* C18: can_switch_to_styled answers (TRUE, none) exactly when validate_xml
\* finds the content valid, which blank content always is, and (FALSE,
\* message) otherwise; a switch to Styled asked of the window while the
\* content is invalid keeps the current mode and calls no mode observer
C18_StyledGuardedByValidity ==
    [][ /\ can_switch_to_styled(content') = <<TRUE, None>> <=> validate_xml(content')[1]
        /\ IsBlank(content') => can_switch_to_styled(content') = <<TRUE, None>>
        /\ ~validate_xml(content')[1] =>
              /\ can_switch_to_styled(content')[1] = FALSE
              /\ can_switch_to_styled(content')[2] # None
        /\ (op' = "_switch_view_mode" /\ arg' = "styled" /\ ~validate_xml(EditorText)[1]) =>
              /\ content' = EditorText
              /\ current_mode' = current_mode
              /\ calls' = <<>>
      ]_vars

C18_Witness ==
    /\ op = "_switch_view_mode" /\ arg = "styled"
    /\ ret = "Invalid XML"
    /\ current_mode = "source"
    /\ content = source_text
    /\ ~validate_xml(content)[1]
    /\ can_switch_to_styled(content)[1] = FALSE
    /\ calls = <<>>

----------------------------------------------------------------------------
(* Claims about the ranges of parsed segments *)

HasId(m) == _parse_segment_definition(m.def) # None

\* the markers of c that carry an id, in document order
ValidMarkers(c) == SelectSeq(FindMarkers(c, 0), HasId)

\* the offsets of c where a marker comment begins
MarkerStarts(c) == { FindMarkers(c, 0)[k].start : k \in 1..Len(FindMarkers(c, 0)) }

\* C19: with at least one valid marker the segments are in document order
\* and do not overlap: start_pos strictly increases, a segment ends no later
\* than the next one starts, each one runs from the end of its marker to the
\* start of a later marker or to the end of the document, and no position
\* lies in two segments
C19_OrderedDisjoint ==
    ValidMarkers(content) # <<>> =>
        /\ \A i \in 1..(Len(segments) - 1) :
              /\ segments[i].start_pos < segments[i + 1].start_pos
              /\ segments[i].end_pos <= segments[i + 1].start_pos
        /\ \A i \in 1..Len(segments) :
              /\ \E k \in 1..Len(ValidMarkers(content)) :
                    ValidMarkers(content)[k].end = segments[i].start_pos
              /\ \/ segments[i].end_pos = Len(content)
                 \/ /\ segments[i].end_pos \in MarkerStarts(content)
                    /\ segments[i].end_pos >= segments[i].start_pos
        /\ \A i, j \in 1..Len(segments) :
              i # j => PositionsOf(segments[i]) \cap PositionsOf(segments[j]) = {}

\* the segment the k-th valid marker of c declares: from the end of its
\* comment to the start of the next valid marker, or to the end of c
DeclaredSegment(c, k) ==
    LET valid == ValidMarkers(c)
        start_pos == valid[k].end
        end_pos == IF k < Len(valid) THEN valid[k + 1].start ELSE Len(c)
    IN  [content |-> Strip(Slice(c, start_pos, end_pos)),
         metadata |-> _parse_segment_definition(valid[k].def)[1],
         start_pos |-> start_pos, end_pos |-> end_pos]

RECURSIVE DeclaredSegments(_, _)
\* the declared segments from the k-th valid marker on, the empty ones left out
DeclaredSegments(c, k) ==
    IF k > Len(ValidMarkers(c)) THEN <<>>
    ELSE (IF DeclaredSegment(c, k).content = "" THEN <<>> ELSE <<DeclaredSegment(c, k)>>)
             \o DeclaredSegments(c, k + 1)

\* C20: with at least one valid marker, every valid marker yields the
\* segment from the end of its comment to the start of the next valid marker
\* (the end of the document for the last), with the trimmed slice as its
\* content; an empty trimmed slice yields no segment; a marker without an id
\* ends no segment
C20_SegmentPerValidMarker ==
    ValidMarkers(content) # <<>> => segments = DeclaredSegments(content, 1)

----------------------------------------------------------------------------
(* Claims about the keys of the editor widget *)

\* C21: a typed character is discarded, the engine not asked, exactly when
\* the position at the cursor is locked; Backspace is discarded exactly when
\* the cursor is past 0 and the position before it is locked; Delete is
\* discarded exactly when the position at the cursor is locked; otherwise
\* the engine decides for a typed character and the default deletion runs
C21_KeyGating ==
    [][ /\ op' = "KeyText" =>
              /\ ret' = "Locked" <=> is_position_locked(segments, cursor)
              /\ ret' = "Locked" => text' = text /\ cursor' = cursor /\ content' = content
              /\ ret' # "Locked" =>
                    /\ ret' = _handle_text_input(text, cursor, arg').branch
                    /\ text' = _handle_text_input(text, cursor, arg').text
        /\ op' = "KeyBackspace" =>
              /\ ret' = "Locked" <=> (cursor > 0 /\ is_position_locked(segments, cursor - 1))
              /\ ret' = "Locked" => text' = text /\ cursor' = cursor /\ content' = content
              /\ (ret' # "Locked" /\ cursor > 0) =>
                    text' = Slice(text, 0, cursor - 1) \o Slice(text, cursor, Len(text))
        /\ op' = "KeyDelete" =>
              /\ ret' = "Locked" <=> is_position_locked(segments, cursor)
              /\ ret' = "Locked" => text' = text /\ cursor' = cursor /\ content' = content
              /\ (ret' # "Locked" /\ cursor < Len(text)) =>
                    text' = Slice(text, 0, cursor) \o Slice(text, cursor + 1, Len(text))
      ]_vars

\* Backspace refused just after the first character of a locked segment
C21_Witness ==
    /\ op = "KeyBackspace" /\ ret = "Locked"
    /\ cursor > 0
    /\ is_position_locked(segments, cursor - 1)
    /\ text = content

----------------------------------------------------------------------------
(* Specification of a session: the store, the view mode, the grid and the
   queries, called in any order *)

\* a call that reads the store and changes nothing
Query(name, argument, result) ==
    /\ op' = name /\ arg' = argument /\ ret' = result
    /\ UNCHANGED dynamic_functions
    /\ UNCHANGED <<content, file_path, modified, segments, files, text, cursor,
                   in_window, edits, pending>>
    /\ UNCHANGED coreVars

\* a call of DocumentManager.validate_xml
ValidateXml == Query("validate_xml", "", IF validate_xml(content)[1] THEN "True" ELSE "False")

\* DocumentManager.format_xml: blank content is returned as it is, invalid
\* content raises XMLFormatError; the formatted text is not modelled
format_xml ==
    Query("format_xml", "",
          IF IsBlank(content) THEN "content"
          ELSE IF validate_xml(content)[1] THEN "formatted" ELSE "XMLFormatError")

\* DocumentManager.get_xml_structure: {} for blank or invalid content; the
\* dictionary of a valid document is not modelled
get_xml_structure ==
    Query("get_xml_structure", "",
          IF IsBlank(content) \/ ~validate_xml(content)[1] THEN "{}" ELSE "dict")

\* a call of DocumentManager.get_segment_at_position
SegmentLookup(position) ==
    Query("get_segment_at_position", "",
          IF get_segment_at_position(segments, position) = None THEN "None"
          ELSE get_segment_at_position(segments, position)[1].metadata.id)

SessionDocs == { "<r>x</r>",
                 MarkerLocked \o "x" \o MarkerPlain \o "y",
                 MarkerPlain \o "x" \o MarkerPlain \o "y" }

SessionIds == {"h", "b", "none"}

SessionPositions == {0, 39}

NextSession ==
    \/ \E c \in SessionDocs : SetContent(c) /\ UNCHANGED pending
    \/ \E id \in SessionIds : update_segment_content(id, "NEW")
    \/ \E p \in {"a.xml", "missing.xml"} : load_from_file(p)
    \/ \E p \in {None, Some("a.xml"), Some("ro/c.xml")} : save_to_file(p)
    \/ mark_saved
    \/ new_document
    \/ \E m \in ViewMode : set_mode(m)
    \/ toggle_grid
    \/ ValidateXml
    \/ format_xml
    \/ get_xml_structure
    \/ \E position \in SessionPositions : SegmentLookup(position)

SpecSession == InitStoreSpec /\ [][NextSession]_vars

\* C22: the modified flag goes from TRUE to FALSE only in a mark_saved, a
\* successful load, a successful save or a new_document; no content
\* assignment, segment update, query, mode or grid change and no failed load
\* or save clears it
C22_ModifiedClearedOnlyBySave ==
    [][ (modified /\ ~modified') =>
            \/ op' = "mark_saved"
            \/ op' = "load_from_file" /\ ret' = "ok"
            \/ op' = "save_to_file" /\ ret' = "ok"
            \/ op' = "new_document" ]_vars

\* a save that failed on a modified document
C22_Witness ==
    /\ op = "save_to_file" /\ ret = "FileSaveError"
    /\ modified
    /\ content # ""

\* the indexes of the segments of segs declared with segment_id
WithId(segs, segment_id) == { k \in 1..Len(segs) : segs[k].metadata.id = segment_id }

\* C23: a successful update_segment_content changes the first segment with
\* the id and the modified flag only: that segment's content is the new one,
\* modified is TRUE, and the raw content, the path, the segment's offsets and
\* every other segment stay; a later assignment of another content, or a
\* load, re-parses and loses the edit, a later assignment of the same content
\* keeps it
C23_SegmentUpdateIsLocal ==
    [][ /\ (op' = "update_segment_content" /\ ret' = "True") =>
              /\ WithId(segments, arg') # {}
              /\ Len(segments') = Len(segments)
              /\ \A k \in 1..Len(segments) :
                    IF k = Min(WithId(segments, arg'))
                    THEN /\ ~DeclaredLocked(segments[k].metadata)
                         /\ segments'[k].content = "NEW"
                         /\ segments'[k].metadata = segments[k].metadata
                         /\ segments'[k].start_pos = segments[k].start_pos
                         /\ segments'[k].end_pos = segments[k].end_pos
                    ELSE segments'[k] = segments[k]
              /\ modified'
              /\ content' = content /\ file_path' = file_path /\ files' = files
        /\ (op' = "content" /\ arg' # content) => segments' = _parse_segments(arg')
        /\ (op' = "load_from_file" /\ ret' = "ok") => segments' = _parse_segments(content')
        /\ (op' = "content" /\ arg' = content) => segments' = segments /\ content' = content
      ]_vars

\* the same raw content assigned after an edit of the first of two segments
\* declared with one id: the edit is still there
C23_Witness ==
    /\ op = "content" /\ arg = content
    /\ Len(segments) = 2
    /\ segments[1].metadata.id = "b" /\ segments[2].metadata.id = "b"
    /\ segments[1].content = "NEW" /\ segments[2].content = "y"
    /\ segments # _parse_segments(content)
    /\ modified

C25_SegmentsFollowContent ==
    [][ (segments = _parse_segments(content)
            /\ ~(op' = "update_segment_content" /\ ret' = "True")) =>
          /\ segments' = _parse_segments(content')
          /\ IsBlank(content') => segments' = <<>>
          /\ op' = "new_document" => segments' = <<>> /\ content' = ""
      ]_vars

\* a document with markers replaced by a new one
C25_Witness ==
    /\ op = "new_document"
    /\ segments = <<>> /\ content = ""
    /\ files["a.xml"] # None
    /\ Len(_parse_segments(files["a.xml"][1].data)) = 2
    /\ file_path = None

----------------------------------------------------------------------------
(* Specification of all the keys of a widget of its own *)

\* texts whose lines have at most 80 characters
KeyLines == { "Hello\nWorld", Repeat("a", 79), Repeat("a", 80),
              Repeat("a", 80) \o "\n" \o Repeat("a", 79) }

\* EditorWidget(); set_content(text); setTextCursor at any offset
InitKeys ==
    /\ InitStore
    /\ InitCore
    /\ files = <<>>
    /\ pending = None
    /\ in_window = FALSE
    /\ edits = 0
    /\ text \in KeyLines
    /\ cursor \in 0..Len(text)

NextKeys ==
    \/ edits < MaxEdits /\ \E k \in {"Key_Left", "Key_Right"} : KeyNavigation(k) /\ UNCHANGED edits
    \/ edits < MaxEdits /\ KeyText("x") /\ edits' = edits + 1
    \/ edits < MaxEdits /\ KeyReturn /\ edits' = edits + 1
    \/ edits < MaxEdits /\ KeyBackspace /\ edits' = edits + 1
    \/ edits < MaxEdits /\ KeyDelete /\ edits' = edits + 1

SpecKeys == InitKeys /\ [][NextKeys]_vars

\* the longest line of a text
LongestLine(t) == Max({ Len(LinesOf(t)[i]) : i \in 1..Len(LinesOf(t)) })

\* C26: from a text whose lines have at most 80 characters, no key event
\* (typed character, Enter, Backspace, Delete, navigation) gives a text with
\* a line longer than 80 characters, Backspace at the start of a line and
\* Delete at the end of a line included
C26_LineCapOverAllKeys ==
    [][ LongestLine(text) <= MAX_LINE_LENGTH => LongestLine(text') <= MAX_LINE_LENGTH ]_vars

\* the ids and the lock flags of a segment list
SegmentKeys(segs) ==
    [i \in 1..Len(segs) |-> <<segs[i].metadata.id, DeclaredLocked(segs[i].metadata)>>]

\* C27: a switch from Source to Styled through the window, on content that
\* is valid for the Styled view, leaves the raw content, the segments (ids
\* and lock flags) and the modified flag as they were
C27_SwitchKeepsDocument ==
    [][ ( /\ op' = "_switch_view_mode" /\ arg' = "styled"
          /\ current_mode = "source"
          /\ content = source_text
          /\ can_switch_to_styled(content)[1] ) =>
            /\ current_mode' = "styled"
            /\ content' = content
            /\ SegmentKeys(segments') = SegmentKeys(segments)
            /\ modified' = modified ]_vars

\* the markers of c that declare a locked or dynamic segment
LockingMarkers(c) ==
    { k \in 1..Len(ValidMarkers(c)) :
        DeclaredLocked(_parse_segment_definition(ValidMarkers(c)[k].def)[1]) }

\* the comment text of marker m of c stands in t at the same offsets, or one
\* to the left or to the right when a character before it was deleted or
\* inserted
MarkerKept(c, m, t) ==
    \E d \in {-1, 0, 1} :
        /\ m.start + d >= 0
        /\ m.end + d <= Len(t)
        /\ Slice(t, m.start + d, m.end + d) = Slice(c, m.start, m.end)

\* C28: no key event the widget accepts (typed character, Enter, Backspace,
\* Delete) changes a character of the marker comment that declares a locked
\* or dynamic segment
C28_LockingMarkerUntouched ==
    [][ (op' \in {"KeyText", "KeyBackspace", "KeyDelete", "KeyReturn"} /\ text = content) =>
          \A k \in LockingMarkers(content) : MarkerKept(content, ValidMarkers(content)[k], text')
      ]_vars

----------------------------------------------------------------------------
(* Specification of set_mode with observers that call set_mode themselves *)

\* an observer of this specification also holds a script: the modes it will
\* ask set_mode for, one at each of its next invocations
ScriptsOfLen(n) == [1..n -> ViewMode]

Scripts == UNION { ScriptsOfLen(n) : n \in 0..MaxReenter }

ObserverNames == <<"f", "g", "h", "k">>

\* the lists of n observers, named in registration order
ObserverLists(n) ==
    { [i \in 1..n |-> [name |-> ObserverNames[i], raises |-> FALSE, script |-> sc[i]]] :
        sc \in [1..n -> Scripts] }

\* a call in progress: the mode, the observers and the invocations made so far
CallState(mode, observers, log) == [mode |-> mode, observers |-> observers, log |-> log]

\* the value a notification loop started for mode value hands to a callback
\* while the mode is mode: the value held in the loop
DeliveredValue_Captured(mode, value) == value

\* callback(self._current_mode): the mode at the time of the call
DeliveredValue(mode, value) == mode

RECURSIVE NotifyFrom(_, _, _)
RECURSIVE SetModeFrom(_, _)

\* the callback of observer i has run: it took the next mode of its script,
\* if any, and called set_mode for it
Called(st, i) ==
    IF st.observers[i].script = <<>> THEN st
    ELSE SetModeFrom([st EXCEPT !.observers[i].script = Tail(st.observers[i].script)],
                     Head(st.observers[i].script))

\* one turn of the loop of _notify_mode_change, for observer i
Delivered(st, i, value) ==
    Called([st EXCEPT !.log = Append(st.log, [observer |-> st.observers[i].name,
                                              value |-> DeliveredValue(st.mode, value)])], i)

\* EditorCore._notify_mode_change from the i-th callback on
NotifyFrom(st, i, value) ==
    IF i > Len(st.observers) THEN st
    ELSE NotifyFrom(Delivered(st, i, value), i + 1, value)

\* EditorCore.set_mode inside a call in progress
SetModeFrom(st, mode) ==
    IF st.mode # mode THEN NotifyFrom([st EXCEPT !.mode = mode], 1, mode) ELSE st

\* what the outermost set_mode(mode) has done when it returns
SetModeDone(st) ==
    /\ current_mode' = st.mode
    /\ view_mode_callbacks' = st.observers
    /\ calls' = st.log

\* EditorCore.set_mode called from outside, with observers that may call
\* set_mode from their callback
SetModeReentrant(mode) ==
    /\ op' = "set_mode" /\ arg' = mode /\ ret' = "none"
    /\ SetModeDone(SetModeFrom(CallState(current_mode, view_mode_callbacks, <<>>), mode))
    /\ UNCHANGED <<grid_visible, grid_callbacks, source_text, dynamic_functions>>
    /\ UNCHANGED <<content, file_path, modified, segments, files, text, cursor,
                   in_window, edits, pending>>

InitReentrant ==
    /\ InitStore
    /\ NoWidget
    /\ files = <<>>
    /\ pending = None
    /\ current_mode = "styled"
    /\ grid_visible = FALSE
    /\ view_mode_callbacks \in UNION { ObserverLists(n) : n \in 1..MaxObservers }
    /\ grid_callbacks = <<>>
    /\ calls = <<>>
    /\ source_text = ""

NextReentrant == \E m \in ViewMode : SetModeReentrant(m)

SpecReentrant == InitReentrant /\ [][NextReentrant]_vars

\* the value of the last invocation of the observer called name in log
LastDelivered(log, name) ==
    log[Max({ k \in 1..Len(log) : log[k].observer = name })].value

\* C29: when an outermost set_mode that changed the mode returns, every
\* registered observer has been called and the last value it was given is
\* current_mode, whatever set_mode calls the observers made from their
\* callbacks
C29_ObserversAgreeAfterReentry ==
    [][ (op' = "set_mode" /\ arg' # current_mode) =>
          \A i \in 1..Len(view_mode_callbacks) :
             /\ \E k \in 1..Len(calls') : calls'[k].observer = view_mode_callbacks[i].name
             /\ LastDelivered(calls', view_mode_callbacks[i].name) = current_mode'
      ]_vars

\* the first of two observers set the mode back from its callback: the
\* second was called once, after that, and the mode is not the one asked for
C29_Witness ==
    /\ op = "set_mode" /\ arg = "source"
    /\ current_mode = "styled"
    /\ Len(view_mode_callbacks) = 2
    /\ calls = << [observer |-> "f", value |-> "source"],
                  [observer |-> "f", value |-> "styled"],
                  [observer |-> "g", value |-> "styled"],
                  [observer |-> "g", value |-> "styled"] >>

----------------------------------------------------------------------------
(* Window: New, Open and close on a document with unsaved changes *)

\* the answers of the "Unsaved Changes" question
Replies == {"Save", "Discard", "Cancel"}

\* the store as a record
Document(c, segs, path, m, fs) ==
    [content |-> c, segments |-> segs, file_path |-> path, modified |-> m, files |-> fs]

\* MainWindow._save_to_file(target): the editor's text c1 (parsed to s1 when
\* it differs from the content) is assigned to the content, then
\* save_to_file; a FileSaveError is shown and nothing else happens
SaveTo(target, c1, s1) ==
    IF target \in Unwritable
    THEN Document(c1, s1, file_path, modified \/ content # c1, files)
    ELSE Document(c1, s1, Some(target), FALSE,
                  [files EXCEPT ![target] = Some(File(c1, TRUE, None))])

\* MainWindow._save_document: the file path of the document, or the one
\* chosen in the Save dialog (None: the dialog was cancelled)
AfterSave(dialog_path) ==
    IF TargetPath(None) = None /\ dialog_path = None
    THEN Document(content, segments, file_path, modified, files)
    ELSE SaveTo(IF TargetPath(None) # None THEN file_path[1] ELSE dialog_path[1],
                IF current_mode = "styled" THEN text ELSE source_text,
                IF content # (IF current_mode = "styled" THEN text ELSE source_text)
                THEN _parse_segments(IF current_mode = "styled" THEN text ELSE source_text)
                ELSE segments)

\* the answer of _check_save_changes after Save, for the store doc the save
\* left
Checked(proceed, doc) == [proceed |-> proceed, doc |-> doc]

SaveChecked(doc) == Checked(~doc.modified, doc)

\* _check_save_changes that goes on after Save whatever the save did
_check_save_changes_Trusting(reply, dialog_path) ==
    IF ~modified
    THEN Checked(TRUE, Document(content, segments, file_path, modified, files))
    ELSE IF reply = "Save" THEN Checked(TRUE, AfterSave(dialog_path))
    ELSE Checked(reply = "Discard", Document(content, segments, file_path, modified, files))

\* MainWindow._check_save_changes: whether the action may go on, and the
\* store it left
_check_save_changes(reply, dialog_path) ==
    IF ~modified
    THEN Checked(TRUE, Document(content, segments, file_path, modified, files))
    ELSE IF reply = "Save" THEN SaveChecked(AfterSave(dialog_path))
    ELSE Checked(reply = "Discard", Document(content, segments, file_path, modified, files))

\* the store is doc
StoreIs(doc) ==
    /\ content' = doc.content
    /\ segments' = doc.segments
    /\ file_path' = doc.file_path
    /\ modified' = doc.modified
    /\ files' = doc.files

\* the editor on screen is given the text t
EditorGets(t) ==
    IF current_mode = "styled"
    THEN text' = t /\ cursor' = 0 /\ UNCHANGED source_text
    ELSE source_text' = t /\ UNCHANGED <<text, cursor>>

\* the action was stopped by _check_save_changes
Aborted(doc) ==
    /\ ret' = "aborted"
    /\ StoreIs(doc)
    /\ UNCHANGED <<text, cursor, source_text, edits>>

\* the rest of _new_document
NewChecked(chk) ==
    IF chk.proceed
    THEN /\ ret' = "proceeded"
         /\ StoreIs(Document("", <<>>, None, FALSE, chk.doc.files))
         /\ EditorGets("")
         /\ UNCHANGED edits
    ELSE Aborted(chk.doc)

\* MainWindow._new_document
_new_document(reply, dialog_path) ==
    /\ in_window
    /\ op' = "_new_document" /\ arg' = IF modified THEN reply ELSE ""
    /\ UNCHANGED dynamic_functions
    /\ NewChecked(_check_save_changes(reply, dialog_path))
    /\ UNCHANGED <<in_window, pending, current_mode, grid_visible,
                   view_mode_callbacks, grid_callbacks, calls>>

\* the rest of _open_document: the Open dialog gave open_path (None:
\* cancelled); a failed load shows a message
OpenChecked(chk, open_path) ==
    IF ~chk.proceed THEN Aborted(chk.doc)
    ELSE /\ ret' = "proceeded"
         /\ IF open_path = None \/ chk.doc.files[open_path[1]] = None
                \/ ~chk.doc.files[open_path[1]][1].utf8
            THEN /\ StoreIs(chk.doc)
                 /\ UNCHANGED <<text, cursor, source_text, edits>>
            ELSE /\ content' = ReadText(chk.doc.files[open_path[1]][1].data)
                 /\ segments' = _parse_segments(content')
                 /\ file_path' = open_path
                 /\ modified' = FALSE
                 /\ files' = chk.doc.files
                 /\ EditorGets(content')
                 /\ UNCHANGED edits

\* MainWindow._open_document
_open_document(reply, dialog_path, open_path) ==
    /\ in_window
    /\ op' = "_open_document" /\ arg' = IF modified THEN reply ELSE ""
    /\ UNCHANGED dynamic_functions
    /\ OpenChecked(_check_save_changes(reply, dialog_path), open_path)
    /\ UNCHANGED <<in_window, pending, current_mode, grid_visible,
                   view_mode_callbacks, grid_callbacks, calls>>

\* the rest of closeEvent: event.accept() or event.ignore()
CloseChecked(chk) ==
    /\ ret' = IF chk.proceed THEN "proceeded" ELSE "aborted"
    /\ StoreIs(chk.doc)
    /\ UNCHANGED <<text, cursor, source_text, edits>>

\* MainWindow.closeEvent
closeEvent(reply, dialog_path) ==
    /\ in_window
    /\ op' = "closeEvent" /\ arg' = IF modified THEN reply ELSE ""
    /\ UNCHANGED dynamic_functions
    /\ CloseChecked(_check_save_changes(reply, dialog_path))
    /\ UNCHANGED <<in_window, pending, current_mode, grid_visible,
                   view_mode_callbacks, grid_callbacks, calls>>

\* the paths the Save dialog and the Open dialog may give; None: cancelled
DialogPaths == {None, Some("a.xml"), Some("ro/c.xml")}

NextUnsaved ==
    \/ \E r \in Replies, p \in DialogPaths : _new_document(r, p)
    \/ \E r \in Replies, p \in DialogPaths, q \in DialogPaths : _open_document(r, p, q)
    \/ \E r \in Replies, p \in DialogPaths : closeEvent(r, p)
    \/ \E m \in ViewMode : _switch_view_mode(m)
    \/ edits < MaxEdits /\ \E t \in SourceEdits(source_text) : SourceEdit(t) /\ edits' = edits + 1
    \/ edits < MaxEdits /\ current_mode = "styled" /\ KeyText("x") /\ edits' = edits + 1
    \/ edits < MaxEdits /\ current_mode = "styled" /\ KeyDelete /\ edits' = edits + 1

\* a.xml can be read and written, ro/c.xml can be read and not written
UnsavedFiles ==
    [p \in Paths |-> IF p = "a.xml" THEN Some(File("<r>x</r>", TRUE, None))
                     ELSE IF p = "ro/c.xml"
                          THEN Some(File("<r>" \o MarkerLocked \o "x</r>", TRUE, None))
                          ELSE None]

InitUnsaved ==
    /\ InitStore
    /\ current_mode = "styled"
    /\ grid_visible = FALSE
    /\ view_mode_callbacks = << [name |-> "_on_mode_change", raises |-> FALSE] >>
    /\ grid_callbacks = << [name |-> "_on_grid_change", raises |-> FALSE] >>
    /\ calls = <<>>
    /\ source_text = ""
    /\ text = ""
    /\ cursor = 0
    /\ in_window = TRUE
    /\ edits = 0
    /\ files = UnsavedFiles
    /\ pending = None

SpecUnsaved == InitUnsaved /\ [][NextUnsaved]_vars

\* some file holds the text c
HeldOnDisk(fs, c) == \E p \in Paths : fs[p] # None /\ fs[p][1].data = c

\* C30: New, Open and close on a modified document go on only after Discard,
\* or after Save when the save was done (the editor's text is on disk); after
\* Cancel, or after Save when the save failed or was cancelled, the action
\* stops and the content, the file path and the modified flag stay
C30_UnsavedChangesKept ==
    [][ (modified /\ op' \in {"_new_document", "_open_document", "closeEvent"}) =>
          /\ arg' \in Replies
          /\ ret' \in {"proceeded", "aborted"}
          /\ ret' = "proceeded" =>
                \/ arg' = "Discard"
                \/ arg' = "Save" /\ HeldOnDisk(files', EditorText)
          /\ arg' = "Cancel" => ret' = "aborted"
          /\ (arg' = "Save" /\ ~HeldOnDisk(files', EditorText)) => ret' = "aborted"
          /\ ret' = "aborted" =>
                /\ content' = content
                /\ file_path' = file_path
                /\ modified' = modified
                /\ modified'
      ]_vars

\* Save was chosen on closing a modified document without a path and the
\* save failed: the close is refused and the document is still modified
C30_Witness ==
    /\ op = "closeEvent" /\ arg = "Save" /\ ret = "aborted"
    /\ modified
    /\ file_path = None
    /\ content # ""
    /\ ~HeldOnDisk(files, content)

====
